---- MODULE Spec2Model ----
(***************************************************************************)
(* A model of earthwyrm: the OSM geometry builder (earthwyrm/src/osm.rs),  *)
(* the layer rules (earthwyrm/src/layer.rs), the tile composer             *)
(* (earthwyrm/src/tile.rs) and the tile route of the server                *)
(* (earthwyrm-bin/src/main.rs).                                            *)
(*                                                                         *)
(* Eight specifications share the module, one per part of the program:     *)
(*   SpecRing   GeometryMaker::rel_polygon on one relation, ref by ref     *)
(*   SpecDig    WyrmCfg::extract_osm for one layer of one PBF file         *)
(*   SpecServe  Wyrm::try_from, then the tile route, request by request    *)
(*   SpecLayer  LayerDef::try_from on one layer, then its rules applied    *)
(*   SpecFiles  the loam file of every layer of a configuration            *)
(*   SpecEdge   TileCfg and the encoding of one point near a tile's edge   *)
(*   SpecShare  the tile route with two requests in flight at once         *)
(*   SpecLines  the encoding of the lines of one linestring geometry       *)
(* Each leaves the variables of the other parts at their idle value.       *)
(*                                                                         *)
(* An optional value (Rust Option) is <<>> for None and <<v>> for Some(v). *)
(***************************************************************************)
EXTENDS Integers, Sequences, FiniteSets, TLC

VARIABLES
    rp,     \* rel_polygon: its locals and what it has consumed
    pbf,    \* dig: the PBF file and the layer's geometry type (inputs)
    dig,    \* dig: extract_layer / make_geometry of the layer
    cfg,    \* serve: the configuration and the index files (inputs)
    srv,    \* serve: "init", then "up" or "failed" (Wyrm::try_from)
    rq,     \* serve: the tile request being handled
    ld,     \* layer rules: one layer definition, built and then applied
    fs,     \* loam files: the layers of a configuration and their files
    tc,     \* tile edge: one point layer queried for one tile
    pk,     \* serve: the tile request of the other handler in flight
    ls      \* linestrings: one geometry encoded for a tile

vars == <<rp, pbf, dig, cfg, srv, rq, ld, fs, tc, pk, ls>>

\* ------------------------------------------------------------------------
\* Bounds
\* ------------------------------------------------------------------------
\* ring assembly: refs of the relation, nodes of a member way, node ids
MaxMembers == 3
MaxWayLen == 4
NumNodes == 5
\* dig: nodes and ways of the PBF file, refs of its relation
DigNumNodes == 2
DigNumWays == 2
DigMaxRefs == 2
\* serve: layers of the first group, zoom levels and columns requested
MaxLayers == 2
MaxReqZoom == 2
MaxReqX == 1
\* linestrings: lines of a geometry, segments of a line
MaxLines == 2
MaxSegs == 3

Nodes == 1..NumNodes

\* ------------------------------------------------------------------------
\* Rust Vec operations
\* ------------------------------------------------------------------------
Reverse(s) == [i \in 1..Len(s) |-> s[Len(s) + 1 - i]]

First(s) == s[1]

Last(s) == s[Len(s)]

\* Vec::pop
Pop(s) == SubSeq(s, 1, Len(s) - 1)

\* Vec::swap_remove(j): the last element takes the place of element j
SwapRemove(s, j) ==
    IF j = Len(s) THEN Pop(s)
    ELSE [i \in 1..(Len(s) - 1) |-> IF i = j THEN s[Len(s)] ELSE s[i]]

MaxOf(S) == IF S = {} THEN 0 ELSE CHOOSE m \in S : \A x \in S : x <= m

MinOf(S) == IF S = {} THEN 0 ELSE CHOOSE m \in S : \A x \in S : m <= x

Range(s) == {s[i] : i \in 1..Len(s)}

\* ------------------------------------------------------------------------
\* osm.rs: end_points, connect_ways, find_ring
\* ------------------------------------------------------------------------
\* end_points: assert!(way.len() > 1)
EndPointsOk(way) == Len(way) > 1

\* `a0 == b0 || a0 == b1 || a1 == b0 || a1 == b1`
SharesEnd(a, b) ==
    \/ First(a) = First(b)
    \/ First(a) = Last(b)
    \/ Last(a) = First(b)
    \/ Last(a) = Last(b)

\* The first pair in the order of the nested loops: smallest i, then j
FirstOf(P) ==
    IF P = {} THEN <<0, 0>>
    ELSE CHOOSE p \in P : \A q \in P :
             p[1] < q[1] \/ (p[1] = q[1] /\ p[2] <= q[2])

FirstPair(ways) ==
    FirstOf({p \in (1..Len(ways)) \X (1..Len(ways)) :
                p[1] < p[2] /\ SharesEnd(ways[p[1]], ways[p[2]])})

\* A variant of the join that keeps the last node of `a`
JoinOriented_Keep(wa, wb) ==
    IF Last(wa) /= First(wb)
    THEN [panic |-> TRUE, way |-> wa]
    ELSE [panic |-> FALSE, way |-> wa \o wb]

\* assert_eq!(a1, b0); ways[i].pop(); ways[i].extend(way)
JoinOriented(wa, wb) ==
    IF Last(wa) /= First(wb)
    THEN [panic |-> TRUE, way |-> wa]
    ELSE [panic |-> FALSE, way |-> Pop(wa) \o wb]

\* `if b1 == a1 { way.reverse(); }`, a1 read again after the reversal of a
OrientB(wa, b) ==
    JoinOriented(wa, IF Last(b) = Last(wa) THEN Reverse(b) ELSE b)

\* A variant of connect_ways that never reverses way `a`
Join_NoReverse(a, b) == OrientB(a, b)

\* `if a1 != b0 && a1 != b1 { ways[i].reverse(); }`
\* (do not reverse way `a` if both ends connect)
Join(a, b) ==
    OrientB(IF Last(a) /= First(b) /\ Last(a) /= Last(b)
            THEN Reverse(a) ELSE a,
            b)

ConnectResult(rest, i, j) ==
    [found |-> ~j.panic, panic |-> j.panic,
     ways |-> IF j.panic THEN rest ELSE [rest EXCEPT ![i] = j.way]]

\* `let mut way = ways.swap_remove(j);` and the join into ways[i]
ConnectAt(ways, p) ==
    ConnectResult(SwapRemove(ways, p[2]), p[1],
                  Join(ways[p[1]], ways[p[2]]))

ConnectFrom(ways, p) ==
    IF p = <<0, 0>> THEN [found |-> FALSE, panic |-> FALSE, ways |-> ways]
    ELSE ConnectAt(ways, p)

\* connect_ways: [found, panic, ways].  end_points asserts on the
\* candidates the loops reach; a short candidate anywhere is a panic here.
ConnectWays(ways) ==
    IF \E k \in 1..Len(ways) : ~EndPointsOk(ways[k])
    THEN [found |-> FALSE, panic |-> TRUE, ways |-> ways]
    ELSE ConnectFrom(ways, FirstPair(ways))

FindAt(ways, i) ==
    IF i = 0 THEN [found |-> FALSE, ring |-> <<>>, ways |-> ways]
    ELSE [found |-> TRUE, ring |-> ways[i], ways |-> SwapRemove(ways, i)]

\* find_ring: the first candidate with w0 == w1 is removed and returned
FindRing(ways) ==
    FindAt(ways, MinOf({i \in 1..Len(ways) : First(ways[i]) = Last(ways[i])}))

\* `while ways.len() > 1 { if !connect_ways(&mut ways) { break; } }`
RECURSIVE SpliceLoop(_)
SpliceStep(c) == IF c.panic \/ ~c.found THEN c ELSE SpliceLoop(c.ways)

SpliceLoop(ways) ==
    IF Len(ways) > 1 THEN SpliceStep(ConnectWays(ways))
    ELSE [found |-> FALSE, panic |-> FALSE, ways |-> ways]

\* `while let Some(ring) = find_ring(&mut ways) { push_outer / push_inner }`
RECURSIVE RingLoop(_, _, _)
RingStep(f, rings, outer) ==
    IF f.found
    THEN RingLoop(f.ways, Append(rings, [outer |-> outer, nodes |-> f.ring]),
                  outer)
    ELSE [ways |-> f.ways, rings |-> rings]

RingLoop(ways, rings, outer) == RingStep(FindRing(ways), rings, outer)

\* way_nodes.  A ref resolves in the working set to nothing ("none"), to
\* an object that is no way ("node"), or to a way.
WayNodes(member) ==
    IF member.kind = "way" /\ Len(member.nodes) > 1
    THEN member.nodes
    ELSE <<>>

\* ------------------------------------------------------------------------
\* The member ways a relation may name (inputs of rel_polygon)
\* ------------------------------------------------------------------------
\* A simple way: no node twice, except that a closed way ends where it starts
SimpleWay(nodes) ==
    \A i, j \in 1..Len(nodes) :
        (i < j /\ nodes[i] = nodes[j]) => (i = 1 /\ j = Len(nodes))

\* Simple ways of up to MaxWayLen nodes (a way of one node is too short)
NodeLists ==
    {w \in UNION {[1..n -> Nodes] : n \in 1..MaxWayLen} : SimpleWay(w)}

\* The assembly only compares node ids for equality, so ids are introduced
\* in increasing order: a way uses ids seen so far and the next unused ones
InOrder(nodes, used) ==
    \A i \in 1..Len(nodes) :
        nodes[i] <= MaxOf({used} \cup {nodes[k] : k \in 1..(i - 1)}) + 1

\* The objects a ref may resolve to, by the number of node ids in use
Members ==
    [used \in 0..NumNodes |->
        {[kind |-> "none", nodes |-> <<>>], [kind |-> "node", nodes |-> <<>>]}
        \cup {[kind |-> "way", nodes |-> w] :
                  w \in {x \in NodeLists : InOrder(x, used)}}]

\* ... split by what way_nodes makes of them
EmptyMembers ==
    [used \in 0..NumNodes |-> {m \in Members[used] : WayNodes(m) = <<>>}]

WayMembers ==
    [used \in 0..NumNodes |-> {m \in Members[used] : WayNodes(m) /= <<>>}]

UsedNodes ==
    MaxOf(UNION ({Range(rp.ways[i]) : i \in 1..Len(rp.ways)}
                 \cup {Range(rp.rings[i].nodes) : i \in 1..Len(rp.rings)}))

\* Edge ends at node n contributed by a way
EdgeEnds(nodes, n) ==
    Cardinality({i \in 1..(Len(nodes) - 1) : nodes[i] = n})
    + Cardinality({i \in 1..(Len(nodes) - 1) : nodes[i + 1] = n})

\* An edge is the set of its two nodes; the uses of edge e by a way
Edges == {{u, v} : u, v \in Nodes}

EdgeUses(nodes, e) ==
    Cardinality({i \in 1..(Len(nodes) - 1) : {nodes[i], nodes[i + 1]} = e})

\* ------------------------------------------------------------------------
\* rel_polygon, one iteration of `for rf in &rel.refs` per step
\*   pc       "loop" inside the loop, "done" once returned, "idle"
\*   n        refs consumed
\*   ways     the local `ways` (the spec's W)
\*   rings    the rings pushed to `polygon`, in push order
\*   result   "none" while running, then "Some" or "None"
\*   panic    an assertion failed
\*   deg, edges, missing: history of the members consumed: edge ends per
\*            node, uses per edge, and whether a member had no usable way
\* ------------------------------------------------------------------------
RelStart ==
    [pc |-> "loop", n |-> 0, ways |-> <<>>, rings |-> <<>>,
     result |-> "none", panic |-> FALSE,
     deg |-> [n \in Nodes |-> 0], edges |-> [e \in Edges |-> 0],
     missing |-> FALSE]

RelIdle == [RelStart EXCEPT !.pc = "idle"]

\* role is neither "outer" nor "inner": `continue`
RelRefOther ==
    /\ rp.pc = "loop"
    /\ rp.n < MaxMembers
    /\ rp' = [rp EXCEPT !.n = @ + 1]
    /\ UNCHANGED <<pbf, dig, cfg, srv, rq, ld, fs, tc, pk, ls>>

\* way_nodes(rf.member) is empty: `continue`
RelRefEmpty(member) ==
    /\ rp.pc = "loop"
    /\ rp.n < MaxMembers
    /\ WayNodes(member) = <<>>
    /\ rp' = [rp EXCEPT !.n = @ + 1, !.missing = TRUE]
    /\ UNCHANGED <<pbf, dig, cfg, srv, rq, ld, fs, tc, pk, ls>>

\* the history of a member whose nodes were pushed
Accept(nodes) ==
    [rp EXCEPT !.n = @ + 1,
               !.deg = [n \in Nodes |-> @[n] + EdgeEnds(nodes, n)],
               !.edges = [e \in Edges |-> @[e] + EdgeUses(nodes, e)]]

RelRings(nodes, r) ==
    rp' = [Accept(nodes) EXCEPT !.ways = r.ways, !.rings = r.rings]

RelSpliced(nodes, outer, s) ==
    IF s.panic
    THEN rp' = [Accept(nodes) EXCEPT !.ways = s.ways, !.panic = TRUE,
                                     !.pc = "done"]
    ELSE RelRings(nodes, RingLoop(s.ways, rp.rings, outer))

\* ways.push(nodes), the splice loop, the ring loop
RelPush(nodes, outer) ==
    RelSpliced(nodes, outer, SpliceLoop(Append(rp.ways, nodes)))

RelRefWay(outer, member) ==
    /\ rp.pc = "loop"
    /\ rp.n < MaxMembers
    /\ WayNodes(member) /= <<>>
    /\ RelPush(WayNodes(member), outer)
    /\ UNCHANGED <<pbf, dig, cfg, srv, rq, ld, fs, tc, pk, ls>>

\* A variant of the last test of rel_polygon that always emits the polygon
RelResult_Always(ways) == "Some"

\* `if ways.is_empty() { Some(polygon) } else { None }`
RelResult(ways) == IF ways = <<>> THEN "Some" ELSE "None"

\* after the last ref
RelFinish ==
    /\ rp.pc = "loop"
    /\ rp' = [rp EXCEPT !.pc = "done", !.result = RelResult(rp.ways)]
    /\ UNCHANGED <<pbf, dig, cfg, srv, rq, ld, fs, tc, pk, ls>>

\* ------------------------------------------------------------------------
\* layer.rs: tag patterns.  A tag dictionary is a function from the tags
\* present to their values.
\* ------------------------------------------------------------------------
TagGet(tags, tag) == IF tag \in DOMAIN tags THEN <<tags[tag]>> ELSE <<>>

\* TagPattern::matches_value_option
MatchesValueOption(pat, value) ==
    IF value /= <<>>
    THEN \E k \in 1..Len(pat.values) : pat.values[k] = value[1]
    ELSE \E k \in 1..Len(pat.values) : pat.values[k] = "_"

\* A variant of matches_value that takes every pattern as an Equal one
MatchesValue_Equal(pat, value) == MatchesValueOption(pat, value)

\* TagPattern::matches_value
MatchesValue(pat, value) ==
    IF pat.equal THEN MatchesValueOption(pat, value)
    ELSE ~MatchesValueOption(pat, value)

\* A variant of check_tags that tests the patterns of every prefix
CheckTags_All(patterns, tags) ==
    \A k \in 1..Len(patterns) :
        MatchesValue(patterns[k], TagGet(tags, patterns[k].tag))

\* LayerDef::check_tags
CheckTags(patterns, tags) ==
    \A k \in 1..Len(patterns) :
        patterns[k].must_match
            => MatchesValue(patterns[k], TagGet(tags, patterns[k].tag))

\* A variant of LayerDef::tags that lists the tag of every pattern
IncludeTags_All(patterns) == [k \in 1..Len(patterns) |-> patterns[k].tag]

\* LayerDef::tags: the tags of the include patterns, in order
RECURSIVE IncludeTags(_)
IncludeTags(patterns) ==
    IF patterns = <<>> THEN <<>>
    ELSE (IF Head(patterns).include THEN <<Head(patterns).tag>> ELSE <<>>)
         \o IncludeTags(Tail(patterns))

\* the closure of tag_values; `id.to_string()` is the id in decimal
ValuesFor(inc, id, tags) ==
    [k \in 1..Len(inc) |->
        IF inc[k] = "osm_id" THEN <<ToString(id)>> ELSE TagGet(tags, inc[k])]

\* GeometryMaker::tag_values
TagValues(patterns, id, tags) == ValuesFor(IncludeTags(patterns), id, tags)

\* A variant of check_zoom that excludes the lowest zoom level of the range
CheckZoom_Above(layer, zoom) ==
    zoom > layer.zoom_min /\ zoom <= layer.zoom_max

\* LayerDef::check_zoom
CheckZoom(layer, zoom) == zoom >= layer.zoom_min /\ zoom <= layer.zoom_max

\* ------------------------------------------------------------------------
\* The PBF file of a dig: nodes, ways and one relation, each with tags.
\*   pbf.nodes   node id -> "absent" or the kind of its tags
\*   pbf.ways    way id -> [present, tags, nodes]
\*   pbf.rel     the relation: [present, tags, refs]
\*   pbf.geom    the layer's geom_tp
\* An OsmId is <<rank, id>>, ranked as the enum orders it: node < way <
\* relation; the working set (a BTreeMap) is walked in that order.
\* ------------------------------------------------------------------------
\* The layer of the walkthrough, shortened: `?name boundary=administrative`
DigPatterns ==
    << [must_match |-> FALSE, include |-> TRUE, sint |-> FALSE,
        tag |-> "name", equal |-> FALSE, values |-> <<"_">>],
       [must_match |-> TRUE, include |-> FALSE, sint |-> FALSE,
        tag |-> "boundary", equal |-> TRUE, values |-> <<"administrative">>] >>

\* The tag dictionaries objects carry: one the layer accepts, one it does not
TagsOf(t) ==
    IF t = "match"
    THEN [boundary |-> "administrative", name |-> "Saint Paul"]
    ELSE [name |-> "Elm Street"]

TagKinds == {"match", "plain"}

GeomTypes == {"Point", "Linestring", "Polygon"}

NodeKey(n) == <<1, n>>

WayKey(w) == <<2, w>>

RelKey == <<3, 1>>

\* The ids of the objects in the file
PbfKeys ==
    {NodeKey(n) : n \in {m \in 1..DigNumNodes : pbf.nodes[m] /= "absent"}}
    \cup {WayKey(w) : w \in {v \in 1..DigNumWays : pbf.ways[v].present}}
    \cup (IF pbf.rel.present THEN {RelKey} ELSE {})

\* OsmObj::tags
ObjTags(key) ==
    IF key[1] = 1 THEN TagsOf(pbf.nodes[key[2]])
    ELSE IF key[1] = 2 THEN TagsOf(pbf.ways[key[2]].tags)
    ELSE TagsOf(pbf.rel.tags)

\* LayerDef::check_obj
CheckObj(geom, patterns, key) ==
    IF geom \in {"Point", "Linestring"}
    THEN CheckTags(patterns, ObjTags(key))
    ELSE \* polygons are relations or closed ways
         (key[1] = 3 \/ key[1] = 2) /\ CheckTags(patterns, ObjTags(key))

\* What an object refers to: the member ways of a relation, the nodes of a way
ObjRefs(key) ==
    IF key[1] = 3
    THEN {WayKey(pbf.rel.refs[k].member) : k \in 1..Len(pbf.rel.refs)}
    ELSE IF key[1] = 2
    THEN {NodeKey(pbf.ways[key[2]].nodes[k]) :
             k \in 1..Len(pbf.ways[key[2]].nodes)}
    ELSE {}

\* OsmPbfReader::get_objs_and_deps: the objects the predicate accepts and,
\* transitively, the objects of the file they refer to
RECURSIVE WithDeps(_)
Grow(S, T) == IF T = S THEN S ELSE WithDeps(T)

WithDeps(S) == Grow(S, S \cup (UNION {ObjRefs(k) : k \in S} \cap PbfKeys))

\* OsmExtractor::extract_layer
ExtractLayer(geom, patterns) ==
    WithDeps({k \in PbfKeys : CheckObj(geom, patterns, k)})

KeyLess(a, b) == a[1] < b[1] \/ (a[1] = b[1] /\ a[2] < b[2])

\* The keys of a set in map order
RECURSIVE InMapOrder(_)
LeastFirst(S, k) == <<k>> \o InMapOrder(S \ {k})

InMapOrder(S) ==
    IF S = {} THEN <<>>
    ELSE LeastFirst(S, CHOOSE x \in S : \A y \in S : x = y \/ KeyLess(x, y))

\* ------------------------------------------------------------------------
\* osm.rs: lookup_nodes, node_point, way_linestring, way_polygon,
\* rel_polygon against a working set `objs` (a set of OsmIds).
\* A point is written as the id of its node.  A function that may return
\* None returns [some, panic, geom]: `panic` when an assertion failed.
\* ------------------------------------------------------------------------
LookupNodes(objs, nodes) ==
    IF \A k \in 1..Len(nodes) : NodeKey(nodes[k]) \in objs
    THEN nodes
    ELSE <<>>

NoGeom == [some |-> FALSE, panic |-> FALSE, geom |-> <<>>]

GeomPanic == [some |-> FALSE, panic |-> TRUE, geom |-> <<>>]

\* gis::Points / Linestrings / Polygons::new(values), with what was pushed
Geom(kind, key, parts) ==
    [some |-> TRUE, panic |-> FALSE,
     geom |-> [kind |-> kind, src |-> key,
               values |-> TagValues(DigPatterns, key[2], ObjTags(key)),
               parts |-> parts]]

\* node_point
NodePoint(objs, n) ==
    Geom("Point", NodeKey(n),
         <<[outer |-> TRUE, pts |-> LookupNodes(objs, <<n>>)]>>)

\* way_linestring
WayLinestring(objs, w) ==
    IF pbf.ways[w].nodes = <<>> THEN NoGeom
    ELSE IF ~EndPointsOk(pbf.ways[w].nodes) THEN GeomPanic
    ELSE Geom("Linestring", WayKey(w),
              <<[outer |-> TRUE,
                 pts |-> LookupNodes(objs, pbf.ways[w].nodes)]>>)

\* Way::is_open: the first and last node differ (false for an empty way)
IsOpen(nodes) == nodes /= <<>> /\ First(nodes) /= Last(nodes)

\* way_polygon
WayPolygon(objs, w) ==
    IF IsOpen(pbf.ways[w].nodes) \/ pbf.ways[w].nodes = <<>> THEN NoGeom
    ELSE IF ~EndPointsOk(pbf.ways[w].nodes) THEN GeomPanic
    ELSE Geom("Polygon", WayKey(w),
              <<[outer |-> TRUE,
                 pts |-> LookupNodes(objs, pbf.ways[w].nodes)]>>)

\* self.objs.get(&rf.member), as way_nodes reads it
Member(objs, w) ==
    IF WayKey(w) \in objs
    THEN [kind |-> "way", nodes |-> pbf.ways[w].nodes]
    ELSE [kind |-> "none", nodes |-> <<>>]

\* rel_polygon: the loop over the refs, from ref k on
RECURSIVE RelLoop(_, _, _, _, _)
RelLoopRings(objs, refs, k, r) == RelLoop(objs, refs, k + 1, r.ways, r.rings)

\* A variant of the ring loop that attaches every ring with the role of the
\* first member of the relation
RelLoopSpliced_First(objs, refs, k, rings, s) ==
    IF s.panic THEN [ways |-> s.ways, rings |-> rings, panic |-> TRUE]
    ELSE RelLoopRings(objs, refs, k,
                      RingLoop(s.ways, rings, refs[1].role = "outer"))

RelLoopSpliced(objs, refs, k, rings, s) ==
    IF s.panic THEN [ways |-> s.ways, rings |-> rings, panic |-> TRUE]
    ELSE RelLoopRings(objs, refs, k,
                      RingLoop(s.ways, rings, refs[k].role = "outer"))

RelLoopMember(objs, refs, k, ways, rings, nodes) ==
    IF refs[k].role \notin {"outer", "inner"} \/ nodes = <<>>
    THEN [next |-> TRUE, ways |-> ways, rings |-> rings, panic |-> FALSE]
    ELSE RelLoopSpliced(objs, refs, k, rings,
                        SpliceLoop(Append(ways, nodes)))

RelLoopNext(objs, refs, k, m) ==
    IF "next" \in DOMAIN m THEN RelLoop(objs, refs, k + 1, m.ways, m.rings)
    ELSE m

RelLoop(objs, refs, k, ways, rings) ==
    IF k > Len(refs)
    THEN [ways |-> ways, rings |-> rings, panic |-> FALSE]
    ELSE RelLoopNext(objs, refs, k,
             RelLoopMember(objs, refs, k, ways, rings,
                           WayNodes(Member(objs, refs[k].member))))

\* A variant of rel_polygon that emits the polygon whatever is left in `ways`
RelPolygonOf_Keep(objs, l) ==
    IF l.panic THEN GeomPanic
    ELSE Geom("Polygon", RelKey,
              [k \in 1..Len(l.rings) |->
                  [outer |-> l.rings[k].outer,
                   pts |-> LookupNodes(objs, l.rings[k].nodes)]])

\* `if ways.is_empty() { Some(polygon) } else { None }`, after the loop
RelPolygonOf(objs, l) ==
    IF l.panic THEN GeomPanic
    ELSE IF RelResult(l.ways) = "Some"
    THEN Geom("Polygon", RelKey,
              [k \in 1..Len(l.rings) |->
                  [outer |-> l.rings[k].outer,
                   pts |-> LookupNodes(objs, l.rings[k].nodes)]])
    ELSE NoGeom

\* rel_polygon of the file's relation
RelPolygon(objs) ==
    RelPolygonOf(objs, RelLoop(objs, pbf.rel.refs, 1, <<>>, <<>>))

\* ------------------------------------------------------------------------
\* A dig of one layer: extract_layer, then make_points / make_linestrings /
\* make_polygons object by object, then finish or cancel
\*   dig.pc      "extract", "make", "done" ("idle" in the other parts)
\*   dig.objs    the working set: a sequence of OsmIds in map order
\*   dig.i       objects of the working set already visited
\*   dig.n       n_point / n_line / n_poly
\*   dig.log     the calls the BulkWriter received, in order
\*   dig.result  "none" while running, then "ok", "err" or "panic"
\* ------------------------------------------------------------------------
DigWayShapes == {<<>>, <<1>>, <<1, 2>>, <<1, 2, 1>>}

DigRoles == {"outer", "inner"}

DigRefLists ==
    UNION {[1..n -> [role : DigRoles, member : 1..DigNumWays]] :
              n \in 0..DigMaxRefs}

AbsentWay == [present |-> FALSE, tags |-> "plain", nodes |-> <<>>]

AbsentRel == [present |-> FALSE, tags |-> "plain", refs |-> <<>>]

PbfFiles ==
    [nodes : [1..DigNumNodes -> {"absent"} \cup TagKinds],
     ways : [1..DigNumWays ->
                {AbsentWay} \cup [present : {TRUE}, tags : TagKinds,
                                  nodes : DigWayShapes]],
     rel : {AbsentRel} \cup [present : {TRUE}, tags : TagKinds,
                             refs : DigRefLists],
     geom : GeomTypes]

NoPbf ==
    [nodes |-> [n \in 1..DigNumNodes |-> "absent"],
     ways |-> [w \in 1..DigNumWays |-> AbsentWay],
     rel |-> AbsentRel, geom |-> "Point"]

DigStart ==
    [pc |-> "extract", objs |-> <<>>, i |-> 0, n |-> 0, log |-> <<>>,
     result |-> "none"]

DigIdle == [DigStart EXCEPT !.pc = "idle"]

\* extract_layer, GeometryMaker::new and BulkWriter::new
DigExtract ==
    /\ dig.pc = "extract"
    /\ dig' = [dig EXCEPT !.pc = "make",
                          !.objs = InMapOrder(ExtractLayer(pbf.geom,
                                                           DigPatterns))]
    /\ UNCHANGED <<rp, pbf, cfg, srv, rq, ld, fs, tc, pk, ls>>

\* BulkWriter::new(loam)? fails: the error is returned before any call
DigCreateFail ==
    /\ dig.pc = "extract"
    /\ dig' = [dig EXCEPT !.pc = "done", !.result = "err"]
    /\ UNCHANGED <<rp, pbf, cfg, srv, rq, ld, fs, tc, pk, ls>>

\* The geometry the loop body of make_* builds from one object
MakeGeom(geom, objs, key) ==
    IF geom = "Point"
    THEN (IF key[1] = 1 THEN NodePoint(objs, key[2]) ELSE NoGeom)
    ELSE IF geom = "Linestring"
    THEN (IF key[1] = 2 THEN WayLinestring(objs, key[2]) ELSE NoGeom)
    ELSE IF key[1] = 3
    THEN \* NOTE: check tags again because relations are nebulous
         (IF CheckTags(DigPatterns, ObjTags(key)) THEN RelPolygon(objs)
          ELSE NoGeom)
    ELSE IF key[1] = 2 THEN WayPolygon(objs, key[2])
    ELSE NoGeom

\* the object yields no geometry
DigSkip(g) ==
    /\ ~g.some
    /\ ~g.panic
    /\ dig' = [dig EXCEPT !.i = @ + 1]

\* an assertion fails while the geometry is built
DigPanic(g) ==
    /\ g.panic
    /\ dig' = [dig EXCEPT !.pc = "done", !.result = "panic"]

\* writer.push(&geom)?; n += 1
DigPush(g) ==
    /\ g.some
    /\ dig' = [dig EXCEPT !.log = Append(@, [op |-> "push", geom |-> g.geom]),
                          !.n = @ + 1, !.i = @ + 1]

\* writer.push(&geom)? fails
DigPushFail(g) ==
    /\ g.some
    /\ dig' = [dig EXCEPT !.log = Append(@, [op |-> "push", geom |-> g.geom]),
                          !.pc = "done", !.result = "err"]

DigVisit(g) ==
    \/ DigSkip(g)
    \/ DigPanic(g)
    \/ DigPush(g)
    \/ DigPushFail(g)

\* one iteration of `for ... in self.objs.iter()`
DigObject ==
    /\ dig.pc = "make"
    /\ dig.i < Len(dig.objs)
    /\ DigVisit(MakeGeom(pbf.geom, Range(dig.objs), dig.objs[dig.i + 1]))
    /\ UNCHANGED <<rp, pbf, cfg, srv, rq, ld, fs, tc, pk, ls>>

\* A variant of the terminal call that finishes whatever the count
Terminal_Finish(n) == "finish"

\* `if n > 0 { writer.finish()?; } else { writer.cancel()?; }`
Terminal(n) == IF n > 0 THEN "finish" ELSE "cancel"

\* the terminal call, which may itself fail
DigFinish(res) ==
    /\ dig.pc = "make"
    /\ dig.i = Len(dig.objs)
    /\ dig' = [dig EXCEPT !.log = Append(@, [op |-> Terminal(dig.n),
                                             geom |-> <<>>]),
                          !.pc = "done", !.result = res]
    /\ UNCHANGED <<rp, pbf, cfg, srv, rq, ld, fs, tc, pk, ls>>

\* ------------------------------------------------------------------------
\* Serve: the configuration and the index files.
\* cfg is the sequence of layer groups, each [name, layers]; a layer is
\*   zoom_min, zoom_max   the zoom range of its LayerDef
\*   loam     "ok" or "missing": whether its index file can be opened
\*   content  what a query of the index for a tile yields: no feature
\*            ("empty"), at least one ("features"), or an error ("ioerr")
\* The second group has one layer, always in its zoom range.
\* ------------------------------------------------------------------------
GroupNames == {"osm", "aux"}

ZoomRanges == {<<1, 1>>, <<0, MaxReqZoom>>}

Contents == {"empty", "features", "ioerr"}

LayerCfgs ==
    {[zoom_min |-> z[1], zoom_max |-> z[2], loam |-> "missing",
      content |-> "empty"] : z \in ZoomRanges}
    \cup {[zoom_min |-> z[1], zoom_max |-> z[2], loam |-> "ok",
           content |-> c] : z \in ZoomRanges, c \in Contents}

OtherLayerCfgs == {l \in LayerCfgs : l.zoom_min = 0 /\ l.content /= "ioerr"}

Configs ==
    {<<[name |-> a, layers |-> l1], [name |-> b, layers |-> <<l2>>]>> :
        a \in GroupNames, b \in GroupNames,
        l1 \in UNION {[1..n -> LayerCfgs] : n \in 1..MaxLayers},
        l2 \in OtherLayerCfgs}

NoConfig == <<>>

\* GeomTree::new(..)?, LayerTree::new(..)?, LayerGroup::new(..)?
OpensAll(groups) ==
    \A g \in 1..Len(groups) : \A k \in 1..Len(groups[g].layers) :
        groups[g].layers[k].loam = "ok"

\* Wyrm::try_from, as ServeCommand::serve calls it
TryFrom(groups) == IF OpensAll(groups) THEN "up" ELSE "failed"

\* `let wyrm = Arc::new(Wyrm::try_from(&cfg)?);`
SrvStart ==
    /\ srv = "init"
    /\ srv' = TryFrom(cfg)
    /\ UNCHANGED <<rp, pbf, dig, cfg, rq, ld, fs, tc, pk, ls>>

\* ------------------------------------------------------------------------
\* Serve: the tile route `/:group/:z/:x/:tail`
\* ------------------------------------------------------------------------
ReqNames == GroupNames \cup {"none"}

\* the text before the extension, as a sequence of characters
Stems == {<<>>, <<"0">>, <<"1">>, <<"y">>}

Tails ==
    {[stem |-> s, ext |-> ".mvt"] : s \in Stems}
    \cup {[stem |-> <<"0">>, ext |-> ".png"]}

IsDigit(c) == c \in {"0", "1", "2", "3", "4", "5", "6", "7", "8", "9"}

DigitVal(c) ==
    CASE c = "0" -> 0 [] c = "1" -> 1 [] c = "2" -> 2 [] c = "3" -> 3
      [] c = "4" -> 4 [] c = "5" -> 5 [] c = "6" -> 6 [] c = "7" -> 7
      [] c = "8" -> 8 [] c = "9" -> 9

RECURSIVE DigitsVal(_, _)
DigitsVal(s, acc) ==
    IF s = <<>> THEN acc ELSE DigitsVal(Tail(s), acc * 10 + DigitVal(Head(s)))

\* the digits of a u32: not empty and all decimal (the texts parsed here
\* have fewer than ten digits, so the value fits 32 bits)
ParseDigits(s) ==
    IF s /= <<>> /\ \A k \in 1..Len(s) : IsDigit(s[k])
    THEN <<DigitsVal(s, 0)>>
    ELSE <<>>

\* str::parse::<u32>: one leading plus sign is allowed
ParseU32(s) ==
    IF s /= <<>> /\ Head(s) = "+" THEN ParseDigits(Tail(s)) ELSE ParseDigits(s)

Pow2(z) == IF z = 0 THEN 1 ELSE 2 ^ z

\* TileId::new(x, y, z): the column and row must exist at the zoom level
TileIdNew(x, y, z) ==
    IF x < Pow2(z) /\ y < Pow2(z) THEN <<[x |-> x, y |-> y, z |-> z]>>
    ELSE <<>>

TileIdParsed(params, y) ==
    IF y = <<>> THEN <<>> ELSE TileIdNew(params.x, y[1], params.z)

\* TryFrom<&TileParams> for TileId
TileIdTryFrom(params) ==
    IF params.tail.ext = ".mvt"
    THEN TileIdParsed(params, ParseU32(params.tail.stem))
    ELSE <<>>

\* `for group in &self.groups { if group_name == group.name() {..} }`:
\* the index of the first group of that name, 0 if there is none
FindGroup(groups, name) ==
    MinOf({g \in 1..Len(groups) : groups[g].name = name})

\* A variant of write_tile that writes a tile without layers as well
WriteTileResult_Any(num_layers, written) ==
    IF written THEN "Ok" ELSE "Other"

\* write_tile: `if tile.num_layers() > 0`
WriteTileResult(num_layers, written) ==
    IF num_layers > 0 THEN (IF written THEN "Ok" ELSE "Other")
    ELSE "TileEmpty"

\* the `match` of the handler on what fetch_tile returned
StatusOf(result) ==
    IF result = "Ok" THEN 200
    ELSE IF result = "TileEmpty" THEN 404
    ELSE 500

\*   rq.pc      "idle", "received", "validated", "planned", "composed",
\*              "fetched" (fetch_tile has returned), "done" (responded)
\*   rq.params  the TileParams
\*   rq.tid     the TileId, once validated
\*   rq.gi      the index of the group found
\*   rq.k       layers of the group already visited by query_tile
\*   rq.tile    the layers added to the tile, by index, in order
\*   rq.result  what fetch_tile returned ("none" before)
\*   rq.sent    the status codes the handler returned
\*   rq.queried, rq.path, rq.steps: history: the layers whose index was
\*              queried, the phases passed, the steps taken
NoRequest ==
    [pc |-> "idle", params |-> <<>>, tid |-> <<>>, gi |-> 0, k |-> 0,
     tile |-> <<>>, result |-> "none", sent |-> <<>>,
     queried |-> {}, path |-> <<>>, steps |-> 0]

\* the route matched and the parameters were deserialized
SrvReceive(group, z, x, tail) ==
    /\ srv = "up"
    /\ rq.pc = "idle"
    /\ rq' = [NoRequest EXCEPT
                !.pc = "received",
                !.params = [group |-> group, z |-> z, x |-> x, tail |-> tail],
                !.path = <<"received">>]
    /\ UNCHANGED <<rp, pbf, dig, cfg, srv, ld, fs, tc, pk, ls>>

Validated(tid) ==
    IF tid = <<>>
    THEN rq' = [rq EXCEPT !.pc = "done", !.sent = Append(@, 404),
                          !.steps = @ + 1]
    ELSE rq' = [rq EXCEPT !.pc = "validated", !.tid = tid,
                          !.path = Append(@, "validated"), !.steps = @ + 1]

\* `let Ok(tid) = TileId::try_from(&params) else { return NOT_FOUND }`
SrvValidate ==
    /\ rq.pc = "received"
    /\ Validated(TileIdTryFrom(rq.params))
    /\ UNCHANGED <<rp, pbf, dig, cfg, srv, ld, fs, tc, pk, ls>>

\* A variant of the group loop that plans with the first group when the
\* name is unknown
Found_First(gi) ==
    rq' = [rq EXCEPT !.pc = "planned", !.gi = IF gi = 0 THEN 1 ELSE gi,
                     !.path = Append(@, "planned"), !.steps = @ + 1]

Found(gi) ==
    IF gi = 0
    THEN rq' = [rq EXCEPT !.pc = "fetched", !.result = "UnknownGroupName",
                          !.steps = @ + 1]
    ELSE rq' = [rq EXCEPT !.pc = "planned", !.gi = gi,
                          !.path = Append(@, "planned"), !.steps = @ + 1]

\* Wyrm::fetch_tile: the group loop and tile_config
SrvLookup ==
    /\ rq.pc = "validated"
    /\ Found(FindGroup(cfg, rq.params.group))
    /\ UNCHANGED <<rp, pbf, dig, cfg, srv, ld, fs, tc, pk, ls>>

\* LayerTree::query_tile and the body of the loop of LayerGroup::query_tile
Queried(layer, k) ==
    IF ~CheckZoom(layer, rq.tid[1].z)
    THEN rq' = [rq EXCEPT !.k = k, !.steps = @ + 1]
    ELSE IF layer.content = "ioerr"
    THEN rq' = [rq EXCEPT !.k = k, !.queried = @ \cup {k},
                          !.pc = "fetched", !.result = "Other",
                          !.steps = @ + 1]
    ELSE IF layer.content = "features"
    THEN rq' = [rq EXCEPT !.k = k, !.queried = @ \cup {k},
                          !.tile = Append(@, k), !.steps = @ + 1]
    ELSE rq' = [rq EXCEPT !.k = k, !.queried = @ \cup {k}, !.steps = @ + 1]

SrvQueryLayer ==
    /\ rq.pc = "planned"
    /\ rq.k < Len(cfg[rq.gi].layers)
    /\ Queried(cfg[rq.gi].layers[rq.k + 1], rq.k + 1)
    /\ UNCHANGED <<rp, pbf, dig, cfg, srv, ld, fs, tc, pk, ls>>

\* LayerGroup::query_tile returns Ok(tile)
SrvComposed ==
    /\ rq.pc = "planned"
    /\ rq.k = Len(cfg[rq.gi].layers)
    /\ rq' = [rq EXCEPT !.pc = "composed", !.path = Append(@, "composed"),
                        !.steps = @ + 1]
    /\ UNCHANGED <<rp, pbf, dig, cfg, srv, ld, fs, tc, pk, ls>>

Wrote(result) ==
    rq' = [rq EXCEPT !.pc = "fetched", !.result = result, !.steps = @ + 1,
                     !.path = IF result = "Ok" THEN Append(@, "written")
                              ELSE @]

\* LayerGroup::write_tile after fetch_tile; tile.write_to(out)? may fail
SrvWrite(written) ==
    /\ rq.pc = "composed"
    /\ Wrote(WriteTileResult(Len(rq.tile), written))
    /\ UNCHANGED <<rp, pbf, dig, cfg, srv, ld, fs, tc, pk, ls>>

\* the handler returns the status for what fetch_tile returned
SrvRespond ==
    /\ rq.pc = "fetched"
    /\ rq' = [rq EXCEPT !.pc = "done", !.sent = Append(@, StatusOf(rq.result)),
                        !.steps = @ + 1]
    /\ UNCHANGED <<rp, pbf, dig, cfg, srv, ld, fs, tc, pk, ls>>

\* the response is out and the handler's task ends
SrvClose ==
    /\ rq.pc = "done"
    /\ rq' = NoRequest
    /\ UNCHANGED <<rp, pbf, dig, cfg, srv, ld, fs, tc, pk, ls>>

\* a step of the request in flight
SrvStep ==
    \/ SrvValidate
    \/ SrvLookup
    \/ SrvQueryLayer
    \/ SrvComposed
    \/ \E written \in BOOLEAN : SrvWrite(written)
    \/ SrvRespond

\* ------------------------------------------------------------------------
\* layer.rs: the text of a layer rule.  A text is a sequence of symbols:
\* the punctuation of the rule language, one character each, and name
\* symbols (runs of characters that hold no punctuation).  Str joins the
\* symbols of a text into the String the program keeps, Chars gives the
\* symbols of a String back.
\* ------------------------------------------------------------------------
\* the largest zoom level
ZOOM_MAX == 30

\* the longest name (tag or value) in the texts of RuleCfgs, in symbols
MaxNameLen == 1
\* the values of one pattern, and the characters of a zoom field
MaxValues == 2
MaxZoomLen == 4

Punctuation == {".", "?", "$", "=", "!", "|"}

TagSymbols == {"a", "b", "osm_id"}

ValueSymbols == {"_", "x", "7", "1"}

Symbols == Punctuation \cup TagSymbols \cup ValueSymbols

TextsUpTo(S, n) == UNION {[1..k -> S] : k \in 0..n}

\* str::to_string / write!: the symbols of a text joined into one String
RECURSIVE Str(_)
Str(s) == IF s = <<>> THEN "" ELSE Head(s) \o Str(Tail(s))

\* the symbols of a String
Chars(name) == CHOOSE s \in TextsUpTo(Symbols, MaxNameLen) : Str(s) = name

\* str::find: the place of the first c in s, 0 when there is none
IndexOf(s, c) ==
    IF \E k \in 1..Len(s) : s[k] = c
    THEN CHOOSE k \in 1..Len(s) :
             s[k] = c /\ \A j \in 1..(k - 1) : s[j] /= c
    ELSE 0

\* str::split(c)
RECURSIVE Split(_, _)
SplitAt(s, c, i) ==
    IF i = 0 THEN <<s>>
    ELSE <<SubSeq(s, 1, i - 1)>> \o Split(SubSeq(s, i + 1, Len(s)), c)

Split(s, c) == SplitAt(s, c, IndexOf(s, c))

\* TagPattern::parse_rule: the rule of the prefix and the rest of the text
ParseRule(pat) ==
    IF pat /= <<>> /\ Head(pat) = "."
    THEN [must_match |-> TRUE, include |-> TRUE, sint |-> FALSE,
          rest |-> Tail(pat)]
    ELSE IF pat /= <<>> /\ Head(pat) = "?"
    THEN [must_match |-> FALSE, include |-> TRUE, sint |-> FALSE,
          rest |-> Tail(pat)]
    ELSE IF pat /= <<>> /\ Head(pat) = "$"
    THEN [must_match |-> FALSE, include |-> TRUE, sint |-> TRUE,
          rest |-> Tail(pat)]
    ELSE [must_match |-> TRUE, include |-> FALSE, sint |-> FALSE,
          rest |-> pat]

\* parse_equality, `match tag.strip_suffix('!')`
EqualityOf(tag, values) ==
    IF tag /= <<>> /\ Last(tag) = "!"
    THEN [tag |-> Pop(tag), equal |-> FALSE, values |-> values]
    ELSE [tag |-> tag, equal |-> TRUE, values |-> values]

\* parse_equality, `match pat.split_once('=')`
EqualityAt(pat, i) ==
    IF i = 0
    THEN [tag |-> pat, equal |-> FALSE, values |-> <<"_">>]
    ELSE EqualityOf(SubSeq(pat, 1, i - 1), SubSeq(pat, i + 1, Len(pat)))

\* TagPattern::parse_equality
ParseEquality(pat) == EqualityAt(pat, IndexOf(pat, "="))

StrEach(parts) == [k \in 1..Len(parts) |-> Str(parts[k])]

\* TagPattern::parse_values
ParseValues(values) == StrEach(Split(values, "|"))

\* the TagPattern built at the end of parse
PatternOf(rule, eq) ==
    [must_match |-> rule.must_match, include |-> rule.include,
     sint |-> rule.sint, tag |-> Str(eq.tag), equal |-> eq.equal,
     values |-> ParseValues(eq.values)]

ParseRest(rule) == PatternOf(rule, ParseEquality(rule.rest))

\* TagPattern::parse
Parse(pat) == ParseRest(ParseRule(pat))

\* Display for TagPattern: the prefix
Prefix(p) ==
    IF ~p.must_match /\ p.sint THEN <<"$">>
    ELSE IF ~p.must_match THEN <<"?">>
    ELSE IF p.include THEN <<".">>
    ELSE <<>>

\* Display for TagPattern: the values, a bar before all but the first
RECURSIVE JoinValues(_)
JoinValues(values) ==
    IF values = <<>> THEN <<>>
    ELSE IF Len(values) = 1 THEN Chars(Head(values))
    ELSE Chars(Head(values)) \o <<"|">> \o JoinValues(Tail(values))

\* Display for TagPattern: what follows the tag
EqualityText(p) ==
    IF ~p.equal /\ p.values /= <<>> /\ Head(p.values) = "_" THEN <<>>
    ELSE (IF p.equal THEN <<"=">> ELSE <<"!", "=">>) \o JoinValues(p.values)

\* Display for TagPattern
Format(p) == Prefix(p) \o Chars(p.tag) \o EqualityText(p)

\* A Result is <<"Ok", value>> or <<"Err", kind>>
\* parse_zoom, after `zoom.parse()`
ZoomChecked(n) ==
    IF n = <<>> THEN <<"Err", "ParseInt">>
    ELSE IF n[1] <= ZOOM_MAX THEN <<"Ok", n[1]>>
    ELSE <<"Err", "InvalidZoomLevel">>

\* parse_zoom
ParseZoom(zoom) == ZoomChecked(ParseU32(zoom))

\* the two `?` of a branch of parse_zoom_range, then its Ok
ZoomRange(a, b) ==
    IF a[1] = "Err" THEN a
    ELSE IF b[1] = "Err" THEN b
    ELSE <<"Ok", [zoom_min |-> a[2], zoom_max |-> b[2]]>>

ZoomSame(z) == ZoomRange(z, z)

\* parse_zoom_range, `z.split_once('-')` having found the dash at i or not
ZoomRangeAt(z, i) ==
    IF i > 0
    THEN ZoomRange(ParseZoom(SubSeq(z, 1, i - 1)),
                   ParseZoom(SubSeq(z, i + 1, Len(z))))
    ELSE IF z /= <<>> /\ Last(z) = "+"
    THEN ZoomRange(ParseZoom(Pop(z)), <<"Ok", ZOOM_MAX>>)
    ELSE ZoomSame(ParseZoom(z))

\* parse_zoom_range
ParseZoomRange(z) == ZoomRangeAt(z, IndexOf(z, "-"))

\* parse_patterns: the loop over the pattern texts
RECURSIVE ParsePatternsFrom(_, _)
\* A variant of the duplicate test that compares whole patterns
PushPattern_Whole(tags, patterns, p) ==
    IF \E k \in 1..Len(patterns) : patterns[k] = p
    THEN <<"Err", "DuplicatePattern">>
    ELSE ParsePatternsFrom(Tail(tags), Append(patterns, p))

PushPattern(tags, patterns, p) ==
    IF \E k \in 1..Len(patterns) : patterns[k].tag = p.tag
    THEN <<"Err", "DuplicatePattern">>
    ELSE ParsePatternsFrom(Tail(tags), Append(patterns, p))

ParsePatternsFrom(tags, patterns) ==
    IF tags = <<>> THEN <<"Ok", patterns>>
    ELSE PushPattern(tags, patterns, Parse(Head(tags)))

\* parse_patterns
ParsePatterns(tags) == ParsePatternsFrom(tags, <<>>)

\* parse_source
ParseSource(source) ==
    IF source \in {"osm", "json"} THEN <<"Ok", source>>
    ELSE <<"Err", "UnknownDataSource">>

\* parse_geom_type
ParseGeomType(geom_tp) ==
    IF geom_tp \in {"point", "linestring", "polygon"} THEN <<"Ok", geom_tp>>
    ELSE <<"Err", "UnknownGeometryType">>

\* LayerDef::try_from: each `?` returns the first error met
LayerDefOf(source, geom_tp, zoom, patterns) ==
    IF source[1] = "Err" THEN source
    ELSE IF geom_tp[1] = "Err" THEN geom_tp
    ELSE IF zoom[1] = "Err" THEN zoom
    ELSE IF patterns[1] = "Err" THEN patterns
    ELSE <<"Ok", [zoom_min |-> zoom[2].zoom_min,
                  zoom_max |-> zoom[2].zoom_max,
                  patterns |-> patterns[2]]>>

LayerDefTryFrom(layer) ==
    LayerDefOf(ParseSource(layer.source), ParseGeomType(layer.geom_type),
               ParseZoomRange(layer.zoom), ParsePatterns(layer.tags))

\* LayerDef::tag_values: the include patterns zipped with the values
IncludePatterns(patterns) == SelectSeq(patterns, LAMBDA p : p.include)

\* A variant of the zip that first drops the absent values
Zipped_Packed(inc, values) ==
    [k \in 1..MinOf({Len(inc),
                     Len(SelectSeq(values, LAMBDA v : v /= <<>>))}) |->
        [tag |-> inc[k].tag,
         value |-> SelectSeq(values, LAMBDA v : v /= <<>>)[k],
         sint |-> inc[k].sint]]

Zipped(inc, values) ==
    [k \in 1..MinOf({Len(inc), Len(values)}) |->
        [tag |-> inc[k].tag, value |-> values[k], sint |-> inc[k].sint]]

\* LayerDef::tag_values: the pairs that have a value
WithValue(pairs) == SelectSeq(pairs, LAMBDA e : e.value /= <<>>)

LayerTagValues(patterns, values) ==
    WithValue(Zipped(IncludePatterns(patterns), values))

\* str::parse::<i64>: a sign, then digits
ParseI64(s) ==
    IF s /= <<>> /\ Head(s) = "-"
    THEN (IF ParseDigits(Tail(s)) = <<>> THEN <<>>
          ELSE <<0 - ParseDigits(Tail(s))[1]>>)
    ELSE ParseU32(s)

\* add_tags: the property of one (tag, value, sint), none when the value of
\* a sint does not parse
SintProperty(e, n) ==
    IF n = <<>> THEN <<>>
    ELSE <<[tag |-> e.tag, value |-> ToString(n[1]), type |-> "sint"]>>

Property(e) ==
    IF e.sint THEN SintProperty(e, ParseI64(Chars(e.value[1])))
    ELSE <<[tag |-> e.tag, value |-> e.value[1], type |-> "string"]>>

RECURSIVE Properties(_)
Properties(pairs) ==
    IF pairs = <<>> THEN <<>>
    ELSE Property(Head(pairs)) \o Properties(Tail(pairs))

\* LayerDef::add_tags: the properties the feature gets, in order
AddTags(patterns, values) == Properties(LayerTagValues(patterns, values))

\* ------------------------------------------------------------------------
\* One layer from its configuration to the properties of a feature:
\*   ld.cfg       the LayerCfg
\*   ld.def       the Result of LayerDef::try_from, <<>> before it
\*   ld.obj       the OSM object met at dig: [id, tags]
\*   ld.accepted  check_tags on it
\*   ld.values    its values, captured by GeometryMaker::tag_values
\*   ld.props     the properties add_tags gives its feature at serve
\*   ld.shown     the patterns as Display writes them
\*   ld.again     the patterns parsed from ld.shown
\* ------------------------------------------------------------------------
Prefixes == {<<>>, <<".">>, <<"?">>, <<"$">>}

\* the value lists of the pattern texts: `_` and `x`, bars between
ValueListTexts ==
    {Tail(txt) : txt \in
        {t \in TextsUpTo({"|", "_", "x"}, 2 * MaxValues) :
            /\ Len(t) % 2 = 0 /\ Len(t) > 0
            /\ \A k \in 1..Len(t) : (t[k] = "|") <=> (k % 2 = 1)}}

EqualityTexts ==
    {<<>>} \cup {op \o v : op \in {<<"=">>, <<"!", "=">>},
                           v \in ValueListTexts}

\* the well-formed pattern texts
PatternTexts ==
    {pre \o <<t>> \o e :
        pre \in Prefixes, t \in TagSymbols, e \in EqualityTexts}

\* what follows a first pattern in the lists of two
SecondTexts == {<<"a">>, <<"?", "b">>, <<"$", "a">>, <<"b", "=", "x">>}

PatternLists ==
    {<<>>} \cup {<<p>> : p \in PatternTexts}
    \cup {<<p, q>> : p \in PatternTexts, q \in SecondTexts}

ZoomSymbols == {"0", "1", "3", "-", "+"}

ZoomTexts == TextsUpTo(ZoomSymbols, MaxZoomLen)

\* the layers built: every pattern list at one zoom field, every zoom field
\* with one pattern list
RuleCfgs ==
    {[source |-> "osm", geom_type |-> "polygon", zoom |-> <<"1", "+">>,
      tags |-> t] : t \in PatternLists}
    \cup {[source |-> "osm", geom_type |-> "polygon", zoom |-> z,
           tags |-> <<<<"?", "a">>, <<"b", "=", "x">>>>] : z \in ZoomTexts}

DictValues == {"", "x", "7"}

\* the tag dictionaries of the objects: `a` absent, empty, a word or a
\* number; `b` absent or a word
Dicts ==
    {d \in UNION {[S -> DictValues] : S \in SUBSET {"a", "b"}} :
        "b" \in DOMAIN d => d["b"] = "x"}

Objects == {[id |-> 1, tags |-> d] : d \in Dicts}

LayerIdle ==
    [pc |-> "idle", cfg |-> <<>>, def |-> <<>>, obj |-> <<>>,
     accepted |-> FALSE, values |-> <<>>, props |-> <<>>,
     shown |-> <<>>, again |-> <<>>]

LayerStart(layer) == [LayerIdle EXCEPT !.pc = "cfg", !.cfg = <<layer>>]

LayerStarts == {LayerStart(layer) : layer \in RuleCfgs}

Built(def) ==
    [ld EXCEPT !.pc = IF def[1] = "Ok" THEN "built" ELSE "failed",
               !.def = def]

\* LayerDef::try_from(&LayerCfg)
LayerBuild ==
    /\ ld.pc = "cfg"
    /\ ld' = Built(LayerDefTryFrom(ld.cfg[1]))
    /\ UNCHANGED <<rp, pbf, dig, cfg, srv, rq, fs, tc, pk, ls>>

FormatEach(patterns) == [k \in 1..Len(patterns) |-> Format(patterns[k])]

ParseEach(texts) == [k \in 1..Len(texts) |-> Parse(texts[k])]

Shown(texts) ==
    [ld EXCEPT !.pc = "shown", !.shown = texts, !.again = ParseEach(texts)]

\* every pattern of the layer written with Display, and what was written
\* parsed as a pattern
LayerShow ==
    /\ ld.pc = "built"
    /\ ld' = Shown(FormatEach(ld.def[2].patterns))
    /\ UNCHANGED <<rp, pbf, dig, cfg, srv, rq, fs, tc, pk, ls>>

\* dig: LayerDef::check_tags on the tags of an object
LayerCheck(obj) ==
    /\ ld.pc = "built"
    /\ ld' = [ld EXCEPT !.pc = "checked", !.obj = <<obj>>,
                        !.accepted = CheckTags(ld.def[2].patterns, obj.tags)]
    /\ UNCHANGED <<rp, pbf, dig, cfg, srv, rq, fs, tc, pk, ls>>

\* dig: GeometryMaker::tag_values for the geometry of the accepted object
LayerCapture ==
    /\ ld.pc = "checked"
    /\ ld.accepted
    /\ ld' = [ld EXCEPT !.pc = "captured",
                        !.values = TagValues(ld.def[2].patterns,
                                             ld.obj[1].id, ld.obj[1].tags)]
    /\ UNCHANGED <<rp, pbf, dig, cfg, srv, rq, fs, tc, pk, ls>>

\* serve: LayerDef::add_tags with the values read from the index
LayerEmit ==
    /\ ld.pc = "captured"
    /\ ld' = [ld EXCEPT !.pc = "emitted",
                        !.props = AddTags(ld.def[2].patterns, ld.values)]
    /\ UNCHANGED <<rp, pbf, dig, cfg, srv, rq, fs, tc, pk, ls>>

\* ------------------------------------------------------------------------
\* The loam files of a configuration: dig makes one for every layer, group
\* by group, and serve then opens one for every layer.
\*   fs.cfg   the layer groups, each a sequence of LayerCfg
\*   fs.i     the layer reached, counted through the groups
\*   fs.log   the files made and opened: [op, path, kind, layer]
\* ------------------------------------------------------------------------
\* the layers of a group, and the groups of a configuration
MaxGroupLayers == 2
MaxGroups == 2

\* the layers differ in name and geometry type only
FileLayers ==
    {[name |-> n, source |-> "osm", geom_type |-> g, zoom |-> <<"1", "+">>,
      tags |-> <<<<"a">>>>] :
        n \in {"road", "water"}, g \in {"linestring", "polygon", "circle"}}

FileConfigs ==
    UNION {[1..k -> TextsUpTo(FileLayers, MaxGroupLayers)] : k \in 1..MaxGroups}

\* `for group in &self.layer_group { for layer in &group.layer`
RECURSIVE Flat(_)
Flat(groups) ==
    IF groups = <<>> THEN <<>> ELSE Head(groups) \o Flat(Tail(groups))

\* WyrmCfg::loam_path: base_dir, then "loam", then the name with ".loam"
LoamPath(name) == <<"base_dir", "loam", name \o ".loam">>

FilesIdle == [pc |-> "idle", cfg |-> <<>>, i |-> 0, log |-> <<>>]

FilesStarts ==
    {[pc |-> "dig", cfg |-> c, i |-> 1, log |-> <<>>] : c \in FileConfigs}

\* one layer of the loop: `LayerDef::try_from(layer)?`, then its file
Filed(op, layer, def) ==
    IF def[1] = "Err"
    THEN [fs EXCEPT !.pc = "failed"]
    ELSE [fs EXCEPT !.i = fs.i + 1,
                    !.log = Append(fs.log,
                               [op |-> op, path |-> LoamPath(layer.name),
                                kind |-> def[2], layer |-> fs.i])]

\* LayerDef::geom_tp of a layer that was built
GeomTpOf(layer, def) ==
    IF def[1] = "Err" THEN def ELSE ParseGeomType(layer.geom_type)

FiledLayer(op, layer) ==
    Filed(op, layer, GeomTpOf(layer, LayerDefTryFrom(layer)))

\* extract_osm: one layer, its loam file made by make_geometry
FilesDigLayer ==
    /\ fs.pc = "dig"
    /\ fs.i <= Len(Flat(fs.cfg))
    /\ fs' = FiledLayer("make", Flat(fs.cfg)[fs.i])
    /\ UNCHANGED <<rp, pbf, dig, cfg, srv, rq, ld, tc, pk, ls>>

\* extract_osm: after the last layer; the server is started next
FilesDigEnd ==
    /\ fs.pc = "dig"
    /\ fs.i > Len(Flat(fs.cfg))
    /\ fs' = [fs EXCEPT !.pc = "serve", !.i = 1]
    /\ UNCHANGED <<rp, pbf, dig, cfg, srv, rq, ld, tc, pk, ls>>

\* LayerGroup::new: one layer, its loam file opened by LayerTree::new
FilesServeLayer ==
    /\ fs.pc = "serve"
    /\ fs.i <= Len(Flat(fs.cfg))
    /\ fs' = FiledLayer("open", Flat(fs.cfg)[fs.i])
    /\ UNCHANGED <<rp, pbf, dig, cfg, srv, rq, ld, tc, pk, ls>>

\* Wyrm::try_from: after the last layer of the last group
FilesServeEnd ==
    /\ fs.pc = "serve"
    /\ fs.i > Len(Flat(fs.cfg))
    /\ fs' = [fs EXCEPT !.pc = "up"]
    /\ UNCHANGED <<rp, pbf, dig, cfg, srv, rq, ld, tc, pk, ls>>

\* ------------------------------------------------------------------------
\* tile.rs, geom.rs: one point of a point layer and one tile.  The map is
\* a square of WorldSpan units a side, tile row 0 at its top; a tile of
\* zoom z is WorldSpan / 2^z wide, a whole number of units per pixel.
\*   tc.tile_extent, tc.edge_extent   as configured
\*   tc.tid      the tile: [z, x, y]
\*   tc.off      where the point is, in pixels, on each axis: 0 inside the
\*               tile, -n for n pixels before it, n for n pixels past it
\*   tc.pt       the point on the map
\*   tc.bbox     TileCfg::bbox, <<>> before tile_config
\*   tc.encoded  the point is in the geometry of the tile
\* ------------------------------------------------------------------------
\* how far outside the tile the point may be, in pixels
MaxOutside == 9

WorldSpan == 2 ^ 22

TileExtents == {256, 4096}

EdgeExtents == {0, 6}

TileIds ==
    {[z |-> 10, x |-> 246, y |-> 368], [z |-> 1, x |-> 1, y |-> 0],
     [z |-> 0, x |-> 0, y |-> 0]}

\* the width of a tile of zoom z
TileWidth(z) == WorldSpan \div Pow2(z)

\* MapGrid::tile_bbox
TileBbox(tid) ==
    [x_min |-> tid.x * TileWidth(tid.z),
     x_max |-> (tid.x + 1) * TileWidth(tid.z),
     y_min |-> WorldSpan - (tid.y + 1) * TileWidth(tid.z),
     y_max |-> WorldSpan - tid.y * TileWidth(tid.z)]

\* the pixel a point is in along one axis, from its offset
PixelOf(off, tile_extent) ==
    IF off < 0 THEN off
    ELSE IF off = 0 THEN tile_extent \div 2
    ELSE tile_extent + off

\* the point on the map that falls on pixel (px, py) of the tile
PointAt(bbox, px, py, unit) ==
    [x |-> bbox.x_min + px * unit, y |-> bbox.y_max - py * unit]

PointOf(tid, off, tile_extent) ==
    PointAt(TileBbox(tid), PixelOf(off.x, tile_extent),
            PixelOf(off.y, tile_extent), TileWidth(tid.z) \div tile_extent)

EdgeIdle ==
    [pc |-> "idle", tile_extent |-> 0, edge_extent |-> 0, tid |-> <<>>,
     off |-> <<>>, pt |-> <<>>, bbox |-> <<>>, encoded |-> FALSE]

EdgeStarts ==
    {[pc |-> "tile", tile_extent |-> te, edge_extent |-> ee, tid |-> <<tid>>,
      off |-> <<[x |-> ox, y |-> oy]>>,
      pt |-> <<PointOf(tid, [x |-> ox, y |-> oy], te)>>,
      bbox |-> <<>>, encoded |-> FALSE] :
        te \in TileExtents, ee \in EdgeExtents, tid \in TileIds,
        ox \in -MaxOutside..MaxOutside, oy \in -MaxOutside..MaxOutside}

\* BBox::extend: the box grown to hold two more points
Extend(bbox, lo, hi) ==
    [x_min |-> MinOf({bbox.x_min, lo.x, hi.x}),
     x_max |-> MaxOf({bbox.x_max, lo.x, hi.x}),
     y_min |-> MinOf({bbox.y_min, lo.y, hi.y}),
     y_max |-> MaxOf({bbox.y_max, lo.y, hi.y})]

\* A variant of tile_config that leaves the box of the tile as it is
Extended_Not(bbox, edge_x, edge_y) == bbox

\* tile_config: `bbox.extend([..])`
Extended(bbox, edge_x, edge_y) ==
    Extend(bbox, [x |-> bbox.x_min - edge_x, y |-> bbox.y_min - edge_y],
                 [x |-> bbox.x_max + edge_x, y |-> bbox.y_max + edge_y])

\* tile_config: edge_extent / tile_extent of the width and of the height
TileCfgBbox(bbox, edge_extent, tile_extent) ==
    Extended(bbox,
             (edge_extent * (bbox.x_max - bbox.x_min)) \div tile_extent,
             (edge_extent * (bbox.y_max - bbox.y_min)) \div tile_extent)

\* Wyrm::tile_config
EdgeTileConfig ==
    /\ tc.pc = "tile"
    /\ tc' = [tc EXCEPT !.pc = "query",
                        !.bbox = <<TileCfgBbox(TileBbox(tc.tid[1]),
                                               tc.edge_extent,
                                               tc.tile_extent)>>]
    /\ UNCHANGED <<rp, pbf, dig, cfg, srv, rq, ld, fs, pk, ls>>

\* the point is within the box, and not on its border
Within(pt, bbox) ==
    /\ bbox.x_min < pt.x /\ pt.x < bbox.x_max
    /\ bbox.y_min < pt.y /\ pt.y < bbox.y_max

\* the point is on the border of the box
OnBorder(pt, bbox) ==
    /\ bbox.x_min <= pt.x /\ pt.x <= bbox.x_max
    /\ bbox.y_min <= pt.y /\ pt.y <= bbox.y_max
    /\ ~Within(pt, bbox)

\* Pt::bounded_by; for a point on the border the answer is that of the
\* pointy crate and of the rounding of f64, either one here
BoundedBy(pt, bbox, border) ==
    Within(pt, bbox) \/ (OnBorder(pt, bbox) /\ border)

\* PointTree::query_tile: the point is encoded when the box bounds it, and
\* the feature is kept when its geometry is not empty
EdgeQueryTile(border) ==
    /\ tc.pc = "query"
    /\ tc' = [tc EXCEPT !.pc = "done",
                        !.encoded = BoundedBy(tc.pt[1], tc.bbox[1], border)]
    /\ UNCHANGED <<rp, pbf, dig, cfg, srv, rq, ld, fs, pk, ls>>

\* ------------------------------------------------------------------------
\* Serve: two handlers at once.  The runtime has a handler on each of two
\* worker threads: rq is the request of the handler that takes the next
\* step, pk the request of the other one.  Each handler has its own
\* TileParams, TileId, `out` and Tile; both read the one Wyrm (cfg).
\* ------------------------------------------------------------------------
\* configurations that open: a first group of two layers, the first of
\* them for zoom 1 only
ShareConfigs ==
    {c \in Configs :
        /\ OpensAll(c)
        /\ c[1].name = "osm" /\ c[2].name = "aux"
        /\ Len(c[1].layers) = 2
        /\ c[1].layers[1].zoom_min = 1
        /\ c[1].layers[2].zoom_min = 0}

ShareRequests ==
    [group : {"osm", "none"}, z : 0..1, x : {0},
     tail : {[stem |-> <<"0">>, ext |-> ".mvt"],
             [stem |-> <<"y">>, ext |-> ".mvt"]}]

\* A variant in which the handlers compose into one tile buffer: the
\* handler that stops finds what the other one left there
Parked_SharedOut(running, other) == [running EXCEPT !.tile = other.tile]

\* the locals of a handler (`let mut out = vec![]`, the Tile of query_tile)
\* are its own: they are as it left them when it runs again
Parked(running, other) == running

\* the other worker thread takes the next step
SrvSwitch ==
    /\ srv = "up"
    /\ rq' = pk
    /\ pk' = Parked(rq, pk)
    /\ UNCHANGED <<rp, pbf, dig, cfg, srv, ld, fs, tc, ls>>

\* ------------------------------------------------------------------------
\* geom.rs: a linestring geometry encoded for a tile.  A line is given by
\* its segments: segment k joins point k and point k + 1 of the line, and
\* the line holds TRUE for it when seg.bounded_by(bbox).  A point is
\* written <<line, k>>.
\*   ls.lines      the lines of the geometry (input)
\*   ls.li, ls.si  the line the loop is in, its segments already visited
\*   ls.connected  the local `connected`
\*   ls.enc        the GeomEncoder: the sub-linestrings completed and the
\*                 points added since
\*   ls.out        the geometry encoded, once done
\* ------------------------------------------------------------------------
LineFlags == UNION {[1..n -> BOOLEAN] : n \in 0..MaxSegs}

LineLists == UNION {[1..n -> LineFlags] : n \in 1..MaxLines}

NoEnc == [geoms |-> <<>>, pts |-> <<>>]

LinesIdle ==
    [pc |-> "idle", lines |-> <<>>, li |-> 0, si |-> 0, connected |-> FALSE,
     enc |-> NoEnc, out |-> <<>>]

LinesStarts ==
    {[LinesIdle EXCEPT !.pc = "lines", !.lines = l] : l \in LineLists}

\* GeomEncoder::complete_geom: the points added since the last call become
\* a sub-linestring
CompleteGeom(enc) ==
    IF enc.pts = <<>> THEN enc
    ELSE [geoms |-> Append(enc.geoms, enc.pts), pts |-> <<>>]

\* GeomEncoder::add_point
AddPoint(enc, pt) == [enc EXCEPT !.pts = Append(@, pt)]

\* A variant of the loop that keeps `connected` from one line to the next
StartLine_Carry(s) == [s EXCEPT !.pc = "line", !.li = @ + 1, !.si = 0]

\* `for line in self.iter() { let mut connected = false;`
StartLine(s) ==
    [s EXCEPT !.pc = "line", !.li = @ + 1, !.si = 0, !.connected = FALSE]

LinesLine ==
    /\ ls.pc = "lines"
    /\ ls.li < Len(ls.lines)
    /\ ls' = StartLine(ls)
    /\ UNCHANGED <<rp, pbf, dig, cfg, srv, rq, ld, fs, tc, pk>>

\* `if !connected { enc.complete_geom()?; enc.add_point(p0)?; }`
RunStart(s, p0) ==
    IF s.connected THEN s.enc ELSE AddPoint(CompleteGeom(s.enc), p0)

\* the body of `for seg in line.segments()`, for segment k of the line
Segment(s, k, bounded) ==
    IF bounded
    THEN [s EXCEPT !.enc = AddPoint(RunStart(s, <<s.li, k>>), <<s.li, k + 1>>),
                   !.connected = TRUE, !.si = k]
    ELSE [s EXCEPT !.connected = FALSE, !.si = k]

LinesSegment ==
    /\ ls.pc = "line"
    /\ ls.si < Len(ls.lines[ls.li])
    /\ ls' = Segment(ls, ls.si + 1, ls.lines[ls.li][ls.si + 1])
    /\ UNCHANGED <<rp, pbf, dig, cfg, srv, rq, ld, fs, tc, pk>>

\* the segments of the line are exhausted
LinesLineEnd ==
    /\ ls.pc = "line"
    /\ ls.si = Len(ls.lines[ls.li])
    /\ ls' = [ls EXCEPT !.pc = "lines"]
    /\ UNCHANGED <<rp, pbf, dig, cfg, srv, rq, ld, fs, tc, pk>>

\* `Ok(enc.encode()?)`: the points added last are completed as well
LinesEncode ==
    /\ ls.pc = "lines"
    /\ ls.li = Len(ls.lines)
    /\ ls' = [ls EXCEPT !.pc = "done", !.out = CompleteGeom(ls.enc).geoms]
    /\ UNCHANGED <<rp, pbf, dig, cfg, srv, rq, ld, fs, tc, pk>>

\* ------------------------------------------------------------------------
\* Specifications
\* ------------------------------------------------------------------------
RingInit ==
    /\ rp = RelStart
    /\ pbf = NoPbf
    /\ dig = DigIdle
    /\ cfg = NoConfig
    /\ srv = "idle"
    /\ rq = NoRequest
    /\ ld = LayerIdle
    /\ fs = FilesIdle
    /\ tc = EdgeIdle
    /\ pk = NoRequest
    /\ ls = LinesIdle

RingNext ==
    \/ RelRefOther
    \/ \E m \in EmptyMembers[UsedNodes] : RelRefEmpty(m)
    \/ \E outer \in BOOLEAN, m \in WayMembers[UsedNodes] : RelRefWay(outer, m)
    \/ RelFinish

SpecRing == RingInit /\ [][RingNext]_vars

DigInit ==
    /\ rp = RelIdle
    /\ pbf \in PbfFiles
    /\ dig = DigStart
    /\ cfg = NoConfig
    /\ srv = "idle"
    /\ rq = NoRequest
    /\ ld = LayerIdle
    /\ fs = FilesIdle
    /\ tc = EdgeIdle
    /\ pk = NoRequest
    /\ ls = LinesIdle

DigNext ==
    \/ DigExtract
    \/ DigCreateFail
    \/ DigObject
    \/ \E res \in {"ok", "err"} : DigFinish(res)

SpecDig == DigInit /\ [][DigNext]_vars

ServeInit ==
    /\ rp = RelIdle
    /\ pbf = NoPbf
    /\ dig = DigIdle
    /\ cfg \in Configs
    /\ srv = "init"
    /\ rq = NoRequest
    /\ ld = LayerIdle
    /\ fs = FilesIdle
    /\ tc = EdgeIdle
    /\ pk = NoRequest
    /\ ls = LinesIdle

ServeNext ==
    \/ SrvStart
    \/ \E group \in ReqNames, z \in 0..MaxReqZoom, x \in 0..MaxReqX,
          tail \in Tails : SrvReceive(group, z, x, tail)
    \/ SrvValidate
    \/ SrvLookup
    \/ SrvQueryLayer
    \/ SrvComposed
    \/ \E written \in BOOLEAN : SrvWrite(written)
    \/ SrvRespond
    \/ SrvClose

SpecServe == ServeInit /\ [][ServeNext]_vars

LayerInit ==
    /\ rp = RelIdle
    /\ pbf = NoPbf
    /\ dig = DigIdle
    /\ cfg = NoConfig
    /\ srv = "idle"
    /\ rq = NoRequest
    /\ ld \in LayerStarts
    /\ fs = FilesIdle
    /\ tc = EdgeIdle
    /\ pk = NoRequest
    /\ ls = LinesIdle

LayerNext ==
    \/ LayerBuild
    \/ LayerShow
    \/ \E obj \in Objects : LayerCheck(obj)
    \/ LayerCapture
    \/ LayerEmit

SpecLayer == LayerInit /\ [][LayerNext]_vars

FilesInit ==
    /\ rp = RelIdle
    /\ pbf = NoPbf
    /\ dig = DigIdle
    /\ cfg = NoConfig
    /\ srv = "idle"
    /\ rq = NoRequest
    /\ ld = LayerIdle
    /\ fs \in FilesStarts
    /\ tc = EdgeIdle
    /\ pk = NoRequest
    /\ ls = LinesIdle

FilesNext ==
    \/ FilesDigLayer
    \/ FilesDigEnd
    \/ FilesServeLayer
    \/ FilesServeEnd

SpecFiles == FilesInit /\ [][FilesNext]_vars

EdgeInit ==
    /\ rp = RelIdle
    /\ pbf = NoPbf
    /\ dig = DigIdle
    /\ cfg = NoConfig
    /\ srv = "idle"
    /\ rq = NoRequest
    /\ ld = LayerIdle
    /\ fs = FilesIdle
    /\ tc \in EdgeStarts
    /\ pk = NoRequest
    /\ ls = LinesIdle

EdgeNext ==
    \/ EdgeTileConfig
    \/ \E border \in BOOLEAN : EdgeQueryTile(border)

SpecEdge == EdgeInit /\ [][EdgeNext]_vars

ShareInit ==
    /\ rp = RelIdle
    /\ pbf = NoPbf
    /\ dig = DigIdle
    /\ cfg \in ShareConfigs
    /\ srv = "init"
    /\ rq = NoRequest
    /\ ld = LayerIdle
    /\ fs = FilesIdle
    /\ tc = EdgeIdle
    /\ pk = NoRequest
    /\ ls = LinesIdle

ShareNext ==
    \/ SrvStart
    \/ \E p \in ShareRequests : SrvReceive(p.group, p.z, p.x, p.tail)
    \/ SrvValidate
    \/ SrvLookup
    \/ SrvQueryLayer
    \/ SrvComposed
    \/ \E written \in BOOLEAN : SrvWrite(written)
    \/ SrvRespond
    \/ SrvClose
    \/ SrvSwitch

SpecShare == ShareInit /\ [][ShareNext]_vars

LinesInit ==
    /\ rp = RelIdle
    /\ pbf = NoPbf
    /\ dig = DigIdle
    /\ cfg = NoConfig
    /\ srv = "idle"
    /\ rq = NoRequest
    /\ ld = LayerIdle
    /\ fs = FilesIdle
    /\ tc = EdgeIdle
    /\ pk = NoRequest
    /\ ls \in LinesStarts

LinesNext ==
    \/ LinesLine
    \/ LinesSegment
    \/ LinesLineEnd
    \/ LinesEncode

SpecLines == LinesInit /\ [][LinesNext]_vars

\* ------------------------------------------------------------------------
\* Ring assembly (rel_polygon)
\* ------------------------------------------------------------------------
\* The accepted member ways form a valid multipolygon: every member was
\* usable, every node has an even number of member-way edge ends, and no
\* segment is used twice or joins a node to itself
ValidMultipolygon ==
    /\ ~rp.missing
    /\ \E n \in Nodes : rp.deg[n] > 0
    /\ \A n \in Nodes : rp.deg[n] % 2 = 0
    /\ \A e \in Edges :
          rp.edges[e] <= 1 /\ (Cardinality(e) = 1 => rp.edges[e] = 0)

\* Some node has an odd number of member-way edge ends
OddNode == \E n \in Nodes : rp.deg[n] % 2 = 1

\* A ring that is one closed loop passes through no node twice; a ring
\* that does is two loops joined at that node
OneLoop(ring) == SimpleWay(ring.nodes)

\* C1: for a valid multipolygon, in every member order and orientation,
\* rel_polygon ends with W empty and one ring per closed loop, also when
\* two loops touch at a node.
C1_RingPerLoop ==
    (rp.pc = "done" /\ ValidMultipolygon)
        => /\ rp.ways = <<>>
           /\ rp.result = "Some"
           /\ \A k \in 1..Len(rp.rings) : OneLoop(rp.rings[k])

\* C2 as stated: a relation with a member way missing (or too short) ends
\* with W non-empty and no polygon.
C2_MissingWayDrops ==
    (rp.pc = "done" /\ rp.missing)
        => (rp.ways /= <<>> /\ rp.result = "None")

\* C2 as amended: a missing (or too short) member way is skipped, and the
\* relation is dropped with W non-empty exactly when the ways that are
\* present leave a node with an odd number of edge ends; when the present
\* ways close by themselves the polygon is emitted without the missing way.
C2_MissingWaySkipped ==
    (rp.pc = "done" /\ rp.missing)
        => /\ ~rp.panic
           /\ (rp.ways /= <<>>) <=> OddNode
           /\ (rp.result = "None") <=> OddNode

\* A relation with a missing member whose present ways leave a gap
C2_Witness ==
    /\ rp.pc = "done"
    /\ rp.missing
    /\ rp.ways /= <<>>
    /\ rp.result = "None"
    /\ OddNode

\* ------------------------------------------------------------------------
\* Dig (make_points, make_linestrings, make_polygons)
\* ------------------------------------------------------------------------
\* the geometries pushed to the writer so far
Pushed == {k \in 1..Len(dig.log) : dig.log[k].op = "push"}

OwnTagsMatch(key) == CheckTags(DigPatterns, ObjTags(key))

\* C3: in a polygon layer a polygon is written only for a relation or a
\* way whose own tags match the layer's patterns; a way that is in the
\* working set only as a member of a matching relation yields no polygon.
C3_OnlyMatchingPolygons ==
    pbf.geom = "Polygon"
        => \A k \in Pushed :
              /\ dig.log[k].geom.src[1] \in {2, 3}
              /\ OwnTagsMatch(dig.log[k].geom.src)

\* C4: in a point layer every point written comes from a node whose own
\* tags match, in a linestring layer every linestring from a way whose own
\* tags match; dependencies of matching objects produce no geometry.
C4_OnlyMatchingKind ==
    /\ pbf.geom = "Point"
          => \A k \in Pushed :
                /\ dig.log[k].geom.src[1] = 1
                /\ OwnTagsMatch(dig.log[k].geom.src)
    /\ pbf.geom = "Linestring"
          => \A k \in Pushed :
                /\ dig.log[k].geom.src[1] = 2
                /\ OwnTagsMatch(dig.log[k].geom.src)

\* C5: the writer receives pushes only before its terminal call, and a
\* build that returns without error made exactly one terminal call, the
\* last call: finish if at least one geometry was accepted, else cancel.
C5_WriterProtocol ==
    /\ \A k \in 1..(Len(dig.log) - 1) : dig.log[k].op = "push"
    /\ dig.result = "ok"
          => /\ dig.log /= <<>>
             /\ Last(dig.log).op =
                   (IF Len(dig.log) > 1 THEN "finish" ELSE "cancel")
             /\ dig.n = Len(dig.log) - 1

\* A build without error in which objects were visited and none accepted
C5_Witness ==
    /\ dig.result = "ok"
    /\ dig.objs /= <<>>
    /\ dig.log = <<[op |-> "cancel", geom |-> <<>>]>>

\* ------------------------------------------------------------------------
\* Serve (the tile route)
\* ------------------------------------------------------------------------
\* the groups configured under the requested name
Named == {g \in 1..Len(cfg) : cfg[g].name = rq.params.group}

\* the layers of the first group of that name
ReqLayers == cfg[MinOf(Named)].layers

InRange(layer) ==
    layer.zoom_min <= rq.params.z /\ rq.params.z <= layer.zoom_max

RECURSIVE Ascending(_)
Ascending(S) ==
    IF S = {} THEN <<>> ELSE <<MinOf(S)>> \o Ascending(S \ {MinOf(S)})

\* the status the route is said to answer with
SaidStatus ==
    IF rq.result = "Ok" THEN 200
    ELSE IF rq.result = "TileEmpty" THEN 204
    ELSE IF rq.result \in {"UnknownGroupName", "none"} THEN 404
    ELSE 500

\* C6: the route answers 200 for tile bytes, 204 for an empty tile, 404
\* for an unknown group or an invalid tile id, 500 for any other error.
C6_StatusMapping ==
    rq.pc = "done" => rq.sent = <<SaidStatus>>

\* C7: fetch_tile returns the unknown-group result exactly when no group
\* has the requested name, and tile-empty exactly when the group exists
\* and every one of its layers produced no feature for the tile.
C7_EmptyVsUnknown ==
    (rq.pc \in {"fetched", "done"} /\ rq.result /= "none")
        => /\ (rq.result = "UnknownGroupName") <=> (Named = {})
           /\ (rq.result = "TileEmpty") <=>
                 /\ Named /= {}
                 /\ \A k \in 1..Len(ReqLayers) :
                       ~InRange(ReqLayers[k])
                       \/ ReqLayers[k].content = "empty"

\* A known group of two layers, none of which produced a feature
C7_Witness ==
    /\ rq.pc = "fetched"
    /\ rq.result = "TileEmpty"
    /\ Len(cfg[rq.gi].layers) = 2
    /\ rq.queried /= {}

\* C8: a layer whose index file cannot be opened does not fail the start
\* of the server; its group is served without that layer.
C8_OpenFailureTolerated ==
    (srv /= "init" /\ ~OpensAll(cfg)) => srv = "up"

PhaseOrder == <<"received", "validated", "planned", "composed", "written">>

IsPrefix(p, s) == Len(p) <= Len(s) /\ p = SubSeq(s, 1, Len(p))

\* C9: a request passes the phases in order, validated before the group
\* is looked up, planned only for a known group, written only after a
\* composition with at least one layer; it always has a next step until
\* it is answered, takes a bounded number of steps, and is answered once.
C9_Pipeline ==
    /\ IsPrefix(rq.path, PhaseOrder)
    /\ Len(rq.path) >= 2 => rq.tid /= <<>>
    /\ Len(rq.path) >= 3 => Named /= {}
    /\ (rq.result = "Ok") <=> (rq.path = PhaseOrder)
    /\ rq.result = "Ok" => rq.tile /= <<>>
    /\ rq.pc \notin {"idle", "done"} => (rq.sent = <<>> /\ ENABLED SrvStep)
    /\ rq.pc = "done" => Len(rq.sent) = 1
    /\ rq.steps <= MaxLayers + 5

\* A request answered with tile bytes
C9_Witness ==
    /\ rq.pc = "done"
    /\ rq.result = "Ok"
    /\ rq.path = PhaseOrder
    /\ rq.sent = <<200>>

\* C10: the layers of a composed tile are the layers of the requested
\* group that are in their zoom range and produced a feature, in
\* declaration order; a layer outside its zoom range is never queried.
C10_ZoomGate ==
    /\ rq.pc \in {"planned", "composed", "fetched"}
          => \A k \in rq.queried \cup Range(rq.tile) : InRange(ReqLayers[k])
    /\ rq.pc = "composed"
          => /\ rq.tile =
                   Ascending({k \in 1..Len(ReqLayers) :
                                 /\ InRange(ReqLayers[k])
                                 /\ ReqLayers[k].content = "features"})
             /\ rq.queried = {k \in 1..Len(ReqLayers) : InRange(ReqLayers[k])}

\* A tile composed of the second layer only, the first being out of range
C10_Witness ==
    /\ rq.pc = "composed"
    /\ Len(ReqLayers) = 2
    /\ ~InRange(ReqLayers[1])
    /\ ReqLayers[1].content = "features"
    /\ rq.tile = <<2>>

\* ------------------------------------------------------------------------
\* Claims about the layer rules (SpecLayer)
\* ------------------------------------------------------------------------
\* the states in which the values of the object have been captured
Captured == ld.pc \in {"captured", "emitted"}

\* the patterns of the layer that was built
Patterns == ld.def[2].patterns

\* how many of the first k patterns are include patterns
IncludeRank(k) == Cardinality({j \in 1..k : Patterns[j].include})

\* what the object holds for a tag: its id for osm_id, else its tag value
ObjValue(tag) ==
    IF tag = "osm_id" THEN <<ToString(ld.obj[1].id)>>
    ELSE TagGet(ld.obj[1].tags, tag)

IsIntText(v) == \E n \in -9..9 : ToString(n) = v

\* the property the claim gives pattern k: one per include pattern whose
\* tag the object has (its id for osm_id)
StatedProperty(k) ==
    IF Patterns[k].include /\ ObjValue(Patterns[k].tag) /= <<>>
    THEN <<[tag |-> Patterns[k].tag,
            value |-> ObjValue(Patterns[k].tag)[1],
            type |-> IF Patterns[k].sint THEN "sint" ELSE "string"]>>
    ELSE <<>>

\* the same, but none for a sint pattern whose value is not an integer
ParsedProperty(k) ==
    IF Patterns[k].sint /\ Patterns[k].include
          /\ ObjValue(Patterns[k].tag) /= <<>>
          /\ ~IsIntText(ObjValue(Patterns[k].tag)[1])
    THEN <<>>
    ELSE StatedProperty(k)

RECURSIVE StatedFrom(_)
StatedFrom(k) ==
    IF k > Len(Patterns) THEN <<>> ELSE StatedProperty(k) \o StatedFrom(k + 1)

RECURSIVE ParsedFrom(_)
ParsedFrom(k) ==
    IF k > Len(Patterns) THEN <<>> ELSE ParsedProperty(k) \o ParsedFrom(k + 1)

\* C12 as stated: the properties of a feature are, in declaration order,
\* one (tag, value, type) per include pattern whose tag the object has,
\* with the object's value (its id for osm_id).
C12_PropertyPerPresentTag == ld.pc = "emitted" => ld.props = StatedFrom(1)

\* C12, amended: the same, except that a sint pattern whose value does not
\* read as an integer gives no property; no value is paired with the tag
\* of another pattern.
C12_PropertyPerParsedTag == ld.pc = "emitted" => ld.props = ParsedFrom(1)

\* a feature of a layer with two include patterns, both tags present, the
\* first a sint whose value is not an integer: only the second is emitted
C12_Witness ==
    /\ ld.pc = "emitted"
    /\ Len(ld.values) = 2
    /\ ld.values[1] /= <<>> /\ ld.values[2] /= <<>>
    /\ Patterns[1].sint
    /\ Len(ld.props) = 1
    /\ ld.props[1].tag = Patterns[2].tag

\* the states in which check_tags has been applied to an object
Checked == ld.pc \in {"checked", "captured", "emitted"}

\* the tag is missing from the object, or there with an empty value
AbsentOrEmpty(tag) == TagGet(ld.obj[1].tags, tag) \in {<<>>, <<"">>}

\* C13: for a layer whose one pattern is `tag=_` or `tag` (that is,
\* `tag!=_`), `tag=_` accepts and `tag` rejects exactly the objects whose
\* tag is missing or has the empty string as its value.
C13_UnderscoreAbsentOrEmpty ==
    (/\ Checked
     /\ Len(Patterns) = 1
     /\ Patterns[1].must_match
     /\ Patterns[1].values = <<"_">>)
        => (ld.accepted <=> (Patterns[1].equal <=> AbsentOrEmpty(Patterns[1].tag)))

\* C14: every well-formed pattern text, parsed, written with Display and
\* parsed again, gives the pattern of the first parse in every field.
C14_RoundTrip == ld.pc = "shown" => ld.again = Patterns

\* the pattern with the other equality
Flip(p) == [p EXCEPT !.equal = ~p.equal]

\* C15: a pattern (tag, eq, vs) matches a tag dictionary exactly when the
\* pattern (tag, neq, vs) does not: the layer of the one pattern accepts
\* the object exactly when the layer of the other rejects it.
C15_EqualityNegates ==
    (Checked /\ Len(Patterns) = 1 /\ Patterns[1].must_match)
        => (ld.accepted <=> ~CheckTags(<<Flip(Patterns[1])>>, ld.obj[1].tags))

\* an Equal pattern with two values, one of them the value of the object
C15_Witness ==
    /\ Checked
    /\ Len(Patterns) = 1
    /\ Patterns[1].must_match /\ Patterns[1].equal
    /\ Len(Patterns[1].values) = 2
    /\ TagGet(ld.obj[1].tags, Patterns[1].tag) = <<"x">>
    /\ ld.accepted

\* the value list of pattern p holds what the object has for its tag,
\* `_` standing for a tag the object does not have
InValues(p) ==
    IF p.tag \in DOMAIN ld.obj[1].tags
    THEN ld.obj[1].tags[p.tag] \in Range(p.values)
    ELSE "_" \in Range(p.values)

\* C16: check_tags accepts a tag dictionary exactly when every must_match
\* pattern of the layer matches it; the patterns of prefix `?` and `$` have
\* no part in it, and a layer without must_match pattern accepts all.
C16_MustMatchOnly ==
    Checked =>
        (ld.accepted <=>
            \A k \in 1..Len(Patterns) :
                Patterns[k].must_match
                    => (Patterns[k].equal <=> InValues(Patterns[k])))

\* an object accepted by a layer whose `?` or `$` pattern has an =value list
\* that the object's value is not in
C16_Witness ==
    /\ Checked
    /\ ld.accepted
    /\ \E k \in 1..Len(Patterns) :
           /\ ~Patterns[k].must_match
           /\ Patterns[k].equal
           /\ ~InValues(Patterns[k])

\* the tag name of a well-formed pattern text: what follows the prefix
TagOfText(t) == IF <<Head(t)>> \in Prefixes THEN t[2] ELSE t[1]

\* two pattern texts of the layer have the same tag name
SameTagTwice ==
    \E j, k \in 1..Len(ld.cfg[1].tags) :
        j < k /\ TagOfText(ld.cfg[1].tags[j]) = TagOfText(ld.cfg[1].tags[k])

IsDecimal(t) == t /= <<>> /\ \A k \in 1..Len(t) : IsDigit(t[k])

\* the range the claim gives a zoom text of the form N-M, <<>> for others
DashForm(z, i) ==
    IF /\ IsDecimal(SubSeq(z, 1, i - 1))
       /\ IsDecimal(SubSeq(z, i + 1, Len(z)))
       /\ DigitsVal(SubSeq(z, 1, i - 1), 0)
              <= DigitsVal(SubSeq(z, i + 1, Len(z)), 0)
       /\ DigitsVal(SubSeq(z, i + 1, Len(z)), 0) <= 30
    THEN <<[zoom_min |-> DigitsVal(SubSeq(z, 1, i - 1), 0),
            zoom_max |-> DigitsVal(SubSeq(z, i + 1, Len(z)), 0)]>>
    ELSE <<>>

\* the range the claim gives a zoom text: of N, N-M and N+ only
ZoomForm(z) ==
    IF \E i \in 1..Len(z) : z[i] = "-"
    THEN DashForm(z, IndexOf(z, "-"))
    ELSE IF z /= <<>> /\ Last(z) = "+" /\ IsDecimal(Pop(z))
            /\ DigitsVal(Pop(z), 0) <= 30
    THEN <<[zoom_min |-> DigitsVal(Pop(z), 0), zoom_max |-> 30]>>
    ELSE IF IsDecimal(z) /\ DigitsVal(z, 0) <= 30
    THEN <<[zoom_min |-> DigitsVal(z, 0), zoom_max |-> DigitsVal(z, 0)]>>
    ELSE <<>>

\* C18: the zoom field of a layer is accepted only in the forms N, N-M and
\* N+ with 0 <= N <= M <= 30, giving [N,N], [N,M] and [N,30]; every other
\* text is refused, so a layer that was built has zoom_min <= zoom_max <= 30.
C18_ZoomForms ==
    ld.def /= <<>> =>
        /\ (ZoomForm(ld.cfg[1].zoom) = <<>>)
              <=> ld.def \in {<<"Err", "ParseInt">>,
                              <<"Err", "InvalidZoomLevel">>}
        /\ ld.def[1] = "Ok" =>
              /\ ZoomForm(ld.cfg[1].zoom)
                    = <<[zoom_min |-> ld.def[2].zoom_min,
                         zoom_max |-> ld.def[2].zoom_max]>>
              /\ ld.def[2].zoom_min <= ld.def[2].zoom_max
              /\ ld.def[2].zoom_max <= 30

\* ------------------------------------------------------------------------
\* Claims about the loam files (SpecFiles)
\* ------------------------------------------------------------------------
\* every layer of the configuration builds
Accepted ==
    \A k \in 1..Len(Flat(fs.cfg)) : LayerDefTryFrom(Flat(fs.cfg)[k])[1] = "Ok"

\* C19: in a configuration that is accepted, two layers of different
\* geometry kinds never make or open the same index file.
C19_KindsApart ==
    Accepted =>
        \A j, k \in 1..Len(fs.log) :
            fs.log[j].kind /= fs.log[k].kind
                => fs.log[j].path /= fs.log[k].path

\* ------------------------------------------------------------------------
\* Claims about the edge of a tile (SpecEdge)
\* ------------------------------------------------------------------------
\* how many pixels outside the tile the point is along an axis
Outside(off) == IF off < 0 THEN 0 - off ELSE off

\* C20: a point less than edge_extent pixels outside the tile on each axis
\* is encoded into the tile; a point more than edge_extent pixels outside
\* on some axis is not.
C20_EdgeExtent ==
    tc.pc = "done" =>
        /\ (/\ Outside(tc.off[1].x) < tc.edge_extent
            /\ Outside(tc.off[1].y) < tc.edge_extent) => tc.encoded
        /\ (\/ Outside(tc.off[1].x) > tc.edge_extent
            \/ Outside(tc.off[1].y) > tc.edge_extent) => ~tc.encoded

\* tile (10, 246, 368), tile_extent 4096, edge_extent 6: the point 3 pixels
\* right of the tile is encoded
C20_Witness ==
    /\ tc.pc = "done"
    /\ tc.tid = <<[z |-> 10, x |-> 246, y |-> 368]>>
    /\ tc.tile_extent = 4096 /\ tc.edge_extent = 6
    /\ tc.off = <<[x |-> 3, y |-> 0]>>
    /\ tc.pt[1].x > TileBbox(tc.tid[1]).x_max
    /\ tc.encoded

\* ------------------------------------------------------------------------
\* Loading a configuration (extract_osm, Wyrm::try_from)
\* ------------------------------------------------------------------------
\* C22: a configuration with an invalid layer is rejected at load, before
\* any layer is processed: dig makes no index file for it, and serve opens
\* none and does not come up.
C22_RejectedAtLoad ==
    ~Accepted => (fs.log = <<>> /\ fs.pc /= "up")

\* ------------------------------------------------------------------------
\* Dig: ways and relations that yield no geometry
\* ------------------------------------------------------------------------
\* the object the loop of make_* is at
AtObject == dig.objs[dig.i + 1]

\* the loop is at a way of fewer than two nodes
AtShortWay ==
    /\ dig.pc \in {"make", "done"}
    /\ dig.i < Len(dig.objs)
    /\ AtObject[1] = 2
    /\ Len(pbf.ways[AtObject[2]].nodes) <= 1

\* C23: in a linestring layer and in a polygon layer a way of zero nodes or
\* of one node is dropped without reaching the end_points assertion, and
\* the build goes on.
C23_ShortWayDropped ==
    (pbf.geom \in {"Linestring", "Polygon"} /\ AtShortWay)
        => dig.result /= "panic"

\* C24: when a node of a way or of a ring cannot be resolved, nothing is
\* pushed for the way: every line and ring pushed has its points.
C24_UnresolvedDropped ==
    \A k \in Pushed :
        \A r \in 1..Len(dig.log[k].geom.parts) :
            dig.log[k].geom.parts[r].pts /= <<>>

\* C26: every polygon written from a relation has at least one ring; a
\* relation for which no ring was extracted is discarded.
C26_NoEmptyPolygon ==
    \A k \in Pushed :
        dig.log[k].geom.src = RelKey => dig.log[k].geom.parts /= <<>>

\* what rel_polygon leaves in `ways` after the last member of the relation
RelWays == RelLoop(Range(dig.objs), pbf.rel.refs, 1, <<>>, <<>>).ways

\* the loop of make_polygons is at the relation, and its tags match
AtRelation ==
    /\ pbf.geom = "Polygon"
    /\ dig.pc = "make"
    /\ dig.i < Len(dig.objs)
    /\ AtObject = RelKey
    /\ OwnTagsMatch(RelKey)

\* the step drops the object: nothing is pushed or counted, the loop goes on
Dropped == dig' = [dig EXCEPT !.i = @ + 1]

\* the step hands the polygon of the relation to the writer
Emitted ==
    /\ Len(dig'.log) = Len(dig.log) + 1
    /\ Last(dig'.log).op = "push"
    /\ Last(dig'.log).geom.src = RelKey

\* C25: after all members of a relation, the relation is dropped exactly
\* when W is not empty and its polygon is emitted exactly when W is empty;
\* a dropped relation pushes nothing and the loop over the objects goes on
\* unaltered.
C25_DroppedIffWaysLeft ==
    [][AtRelation => IF RelWays /= <<>> THEN Dropped ELSE Emitted]_vars

\* a build that dropped its relation for a member way left open, and ended
\* without error
C25_Witness ==
    /\ pbf.geom = "Polygon"
    /\ dig.result = "ok"
    /\ dig.objs /= <<>>
    /\ Last(dig.objs) = RelKey
    /\ OwnTagsMatch(RelKey)
    /\ RelWays /= <<>>
    /\ \A k \in Pushed : dig.log[k].geom.src /= RelKey

\* the rings rel_polygon has pushed once the first k members are processed
RingsUpTo(k) ==
    RelLoop(Range(dig.objs), SubSeq(pbf.rel.refs, 1, k), 1, <<>>, <<>>).rings

\* the rings extracted while member k is processed
RingsAt(k) == (Len(RingsUpTo(k - 1)) + 1)..Len(RingsUpTo(k))

\* C28: every ring extracted while member m is processed is attached with
\* the role of m, whatever the roles of the earlier members whose ways it
\* contains; a closed outer way and a closed inner way give one polygon of
\* one outer ring and one inner ring.
C28_RoleOfClosingMember ==
    \A p \in Pushed :
        dig.log[p].geom.src = RelKey =>
            \A k \in 1..Len(pbf.rel.refs) : \A r \in RingsAt(k) :
                dig.log[p].geom.parts[r].outer
                    = (pbf.rel.refs[k].role = "outer")

\* the polygon of a relation of a closed outer way and a closed inner way
C28_Witness ==
    \E p \in Pushed :
        /\ dig.log[p].geom.src = RelKey
        /\ pbf.rel.refs = <<[role |-> "outer", member |-> 1],
                            [role |-> "inner", member |-> 2]>>
        /\ dig.log[p].geom.parts =
              <<[outer |-> TRUE, pts |-> <<1, 2, 1>>],
                [outer |-> FALSE, pts |-> <<1, 2, 1>>]>>

\* ------------------------------------------------------------------------
\* Ring assembly: the candidates and the rings at every step
\* ------------------------------------------------------------------------
\* the node sequences of the rings pushed so far
RingNodes == [k \in 1..Len(rp.rings) |-> rp.rings[k].nodes]

\* the consecutive pairs of the sequences of a list, each <<k, i>>
Pairs(seqs) ==
    UNION {{<<k, i>> : i \in 1..(Len(seqs[k]) - 1)} : k \in 1..Len(seqs)}

\* how many consecutive pairs of the sequences are edge e
UsesAcross(seqs, e) ==
    Cardinality({p \in Pairs(seqs) :
                    {seqs[p[1]][p[2]], seqs[p[1]][p[2] + 1]} = e})

\* C27: at every step of the assembly the consecutive pairs of the
\* candidates in W and of the rings are the edges of the accepted member
\* ways, each as often as the members have it: no edge is lost, doubled or
\* invented, so a merge of a and b has |a| + |b| - 1 nodes.
C27_EdgesKept ==
    \A e \in Edges :
        UsesAcross(rp.ways, e) + UsesAcross(RingNodes, e) = rp.edges[e]

\* two members joined at their first nodes, the first one reversed
C27_Witness ==
    /\ rp.n = 2
    /\ rp.ways = << <<2, 1, 3>> >>
    /\ rp.edges[{1, 2}] = 1 /\ rp.edges[{1, 3}] = 1

\* C30: no assertion fails during rel_polygon: end_points sees sequences
\* of two nodes or more only, and the oriented ends meet in every merge,
\* also when both ends connect or a candidate is closed; the splice loop
\* ends, every merge taking one candidate away, with no two candidates
\* left that share an end, and the ring loop with no closed candidate.
C30_NoAssertionFails ==
    /\ ~rp.panic
    /\ Len(rp.ways) + Len(rp.rings) <= rp.n
    /\ \A k \in 1..Len(rp.ways) :
           EndPointsOk(rp.ways[k]) /\ First(rp.ways[k]) /= Last(rp.ways[k])
    /\ \A j, k \in 1..Len(rp.ways) :
           j < k => ~SharesEnd(rp.ways[j], rp.ways[k])

\* a ring of two members that meet at both ends
C30_Witness ==
    /\ rp.n = 2
    /\ rp.ways = <<>>
    /\ Len(rp.rings) = 1
    /\ rp.rings[1].nodes = <<1, 2, 3, 4, 1>>

\* ------------------------------------------------------------------------
\* Claims about the encoding of linestrings (SpecLines)
\* ------------------------------------------------------------------------
\* the segments of line l that begin a run: in the box, and first of the
\* line or after a segment that is not
RunStarts(l) ==
    {i \in 1..Len(ls.lines[l]) :
        ls.lines[l][i] /\ (i = 1 \/ ~ls.lines[l][i - 1])}

\* the last segment of the run of line l that begins with segment i
RunEnd(l, i) ==
    MaxOf({j \in i..Len(ls.lines[l]) : \A k \in i..j : ls.lines[l][k]})

\* the points of that run, in order
RunPoints(l, i) == [k \in 1..(RunEnd(l, i) - i + 2) |-> <<l, i + k - 1>>]

\* the runs of the geometry, each <<line, first segment>>
Runs ==
    {p \in (1..Len(ls.lines)) \X (1..MaxSegs) : p[2] \in RunStarts(p[1])}

\* the place of a run among the runs, line by line
RunRank(p) ==
    Cardinality({q \in Runs :
                    q[1] < p[1] \/ (q[1] = p[1] /\ q[2] <= p[2])})

\* C29: the encoding of a linestring geometry has one sub-linestring per
\* maximal run of consecutive segments within the box, in order; a run of
\* k segments gives its k + 1 points in order; a segment outside the box
\* ends the run, and so does the end of a line.
C29_RunsOfSegments ==
    ls.pc = "done" =>
        /\ Len(ls.out) = Cardinality(Runs)
        /\ \A p \in Runs : ls.out[RunRank(p)] = RunPoints(p[1], p[2])

\* two runs of the first line, its last segment in the box, and a run of
\* the second line that begins with its first segment
C29_Witness ==
    /\ ls.pc = "done"
    /\ ls.lines = <<<<TRUE, FALSE, TRUE>>, <<TRUE>>>>
    /\ ls.out = << <<<<1, 1>>, <<1, 2>>>>, <<<<1, 3>>, <<1, 4>>>>,
                   <<<<2, 1>>, <<2, 2>>>> >>

\* ------------------------------------------------------------------------
\* Claims about requests in flight at once (SpecShare)
\* ------------------------------------------------------------------------
\* the groups of the name request q asks for, and the layers of the first
NamedFor(q) == {g \in 1..Len(cfg) : cfg[g].name = q.params.group}

LayersFor(q) == cfg[MinOf(NamedFor(q))].layers

\* the layers of that group that have zoom q.params.z in their range
InRangeFor(q) ==
    {k \in 1..Len(LayersFor(q)) :
        /\ LayersFor(q)[k].zoom_min <= q.params.z
        /\ q.params.z <= LayersFor(q)[k].zoom_max}

\* ... whose index fails to be read, and that have a feature for the tile
FailingFor(q) == {k \in InRangeFor(q) : LayersFor(q)[k].content = "ioerr"}

FeaturesFor(q) == {k \in InRangeFor(q) : LayersFor(q)[k].content = "features"}

Said(q, result, sent, tile) ==
    q.result = result /\ q.sent = <<sent>> /\ q.tile = tile

\* what request q is answered with when it is the only request, from its
\* parameters, the configuration and the index files
AloneOutcome(q) ==
    IF TileIdTryFrom(q.params) = <<>> THEN Said(q, "none", 404, <<>>)
    ELSE IF NamedFor(q) = {} THEN Said(q, "UnknownGroupName", 500, <<>>)
    ELSE IF FailingFor(q) /= {}
    THEN Said(q, "Other", 500,
              Ascending({k \in FeaturesFor(q) : k < MinOf(FailingFor(q))}))
    ELSE IF FeaturesFor(q) = {} THEN Said(q, "TileEmpty", 404, <<>>)
    ELSE \/ Said(q, "Ok", 200, Ascending(FeaturesFor(q)))
         \/ Said(q, "Other", 500, Ascending(FeaturesFor(q)))

\* both requests, once answered, are answered as if alone
AloneBoth ==
    /\ rq.pc = "done" => AloneOutcome(rq)
    /\ pk.pc = "done" => AloneOutcome(pk)

\* a step leaves the configuration and the server as they are, and the
\* request of one of the handlers as well
SharedKept ==
    /\ cfg' = cfg
    /\ srv = "up" => srv' = "up"
    /\ rq' = rq \/ pk' = pk \/ (rq' = pk /\ pk' = rq)

\* C21: under every interleaving of the steps of two tile requests in
\* flight at once, each request is answered, in status and in tile, as it
\* is when it runs alone on the same configuration and index files, and no
\* step of a request changes the state the requests share.
C21_Isolated == [][SharedKept /\ AloneBoth']_vars

\* one request answered with tile bytes while another one, for another
\* tile, is among the layers of its group
C21_Witness ==
    /\ rq.pc = "done"
    /\ rq.result = "Ok"
    /\ pk.pc = "planned"
    /\ pk.k = 1
    /\ pk.params /= rq.params

====
